---- MODULE Spec2Model ----
(***************************************************************************)
(* Authentication core of the admin console: login, session tokens, and    *)
(* the password-reset token lifecycle (server/routes.ts, server/storage.ts,*)
(* server/auth.ts, shared schema).                                         *)
(*                                                                         *)
(* Every route handler is an async function; it gives up control at each   *)
(* `await`.  A handler is modelled as a process whose pc names the await   *)
(* it is suspended on; one action performs the awaited store call (one SQL *)
(* statement, atomic in the store) and the synchronous code that follows   *)
(* it up to the next await or the response.                                *)
(*                                                                         *)
(* Time is counted in hours.  The store only ever tests used_at for NULL,  *)
(* so every timestamp written to it is represented by the one value Date.  *)
(* A statement that violates a UNIQUE or REFERENCES constraint of the       *)
(* schema throws, and the handler's catch answers 500.  Any other failure  *)
(* of a store call (a lost connection, a locked database) is modelled for  *)
(* the two writes of reset-password, as actions of their own.              *)
(***************************************************************************)
EXTENDS Integers, Sequences, FiniteSets, TLC

VARIABLES
    users,                \* table users: set of rows
    passwordResetTokens,  \* table password_reset_tokens: set of rows
    nextTokenId,          \* the next fresh token id / random token string
    auditLogs,            \* table audit_logs: sequence of rows, oldest first
    now,                  \* the clock read by `new Date()`, in hours
    env,                  \* process environment: NODE_ENV, SESSION_SECRET
    handlers,             \* per connection: the request's route, pc, body, locals, response
    sessions,             \* session tokens kept by browsers (localStorage "token")
    nextUserId,           \* the next fresh user id (crypto.randomUUID)
    browser               \* one browser tab: localStorage and the AuthProvider's state

vars == <<users, passwordResetTokens, nextTokenId, auditLogs, now, env, handlers,
          sessions, nextUserId, browser>>

----------------------------------------------------------------------------
\* Bounds of the model

MaxTokens == 2
MaxTime == 1
MaxAudit == 1
MaxUsers == 3
MaxOps == 1
MaxClock == 24
MaxLogins == 2

\* Two connections: every race between requests involves a pair of handlers
Procs == {1, 2}

----------------------------------------------------------------------------
\* Optional values (undefined / null in the source)

None == <<>>
Some(x) == <<x>>

\* the value of `new Date()` where it is written to a column that is never
\* read back except by IS NULL
Date == "Date"

----------------------------------------------------------------------------
\* server/auth.ts

SALT_ROUNDS == 10
SESSION_TTL_HOURS == 24
RESET_TTL_HOURS == 1

DEFAULT_SECRET == "your-secret-key"

JWT_SECRET ==
    IF env.SESSION_SECRET = None THEN DEFAULT_SECRET ELSE env.SESSION_SECRET[1]

\* bcrypt.hash: a one-way image of the password under a cost factor
hashPassword(password) ==
    [alg |-> "bcrypt", rounds |-> SALT_ROUNDS, of |-> password]

\* bcrypt.compare: re-hashes the candidate under the stored hash's parameters
comparePassword(password, hash) ==
    [alg |-> hash.alg, rounds |-> hash.rounds, of |-> password] = hash

\* mutant: the row is returned as it is stored
excludePassword_WholeRow(user) == user

excludePassword(user) ==
    [id |-> user.id, username |-> user.username, email |-> user.email,
     role |-> user.role, name |-> user.name]

\* mutant: the token is signed with the built-in default instead of JWT_SECRET
generateToken_DefaultSecret(user) ==
    [id |-> user.id, username |-> user.username, role |-> user.role,
     iat |-> now, exp |-> now + SESSION_TTL_HOURS, sig |-> DEFAULT_SECRET]

\* jwt.sign({id, username, role}, JWT_SECRET, {expiresIn: "24h"})
generateToken(user) ==
    [id |-> user.id, username |-> user.username, role |-> user.role,
     iat |-> now, exp |-> now + SESSION_TTL_HOURS, sig |-> JWT_SECRET]

\* mutant: a token is still accepted at the instant it expires
verifyToken_AtExpiry(token) ==
    IF token.sig = JWT_SECRET /\ now <= token.exp
    THEN Some([id |-> token.id, username |-> token.username, role |-> token.role,
               iat |-> token.iat, exp |-> token.exp])
    ELSE None

\* jwt.verify inside try/catch: the payload, or null
verifyToken(token) ==
    IF token.sig = JWT_SECRET /\ now < token.exp
    THEN Some([id |-> token.id, username |-> token.username, role |-> token.role,
               iat |-> token.iat, exp |-> token.exp])
    ELSE None

\* The Authorization header: absent, or a scheme followed by a token
NoHeader == None
Bearer(token) == Some([scheme |-> "Bearer", token |-> token])
Basic(token) == Some([scheme |-> "Basic", token |-> token])

\* a string that is not a signed token
GarbledToken ==
    [id |-> 0, username |-> "", role |-> "", iat |-> 0, exp |-> 0, sig |-> "garbled"]

\* what a middleware does: it answers the request itself, or it calls next()
\* with the identity attached to req.user
Answer(status, message) ==
    [next |-> FALSE, status |-> status, message |-> message, user |-> None]
CallNext(user) ==
    [next |-> TRUE, status |-> 200, message |-> "", user |-> user]

\* mutant: the identity is taken from the users table, not from the token
authMiddleware_FromStore(header) ==
    IF header = None \/ header[1].scheme # "Bearer"
    THEN Answer(401, "Unauthorized: No token provided")
    ELSE LET decoded == verifyToken(header[1].token)
             rows == {u \in users : decoded # None /\ u.id = decoded[1].id}
         IN  IF rows = {}
             THEN Answer(401, "Unauthorized: Invalid token")
             ELSE LET u == CHOOSE u \in rows : TRUE
                  IN  CallNext(Some([id |-> u.id, username |-> u.username,
                                     role |-> u.role]))

authMiddleware(header) ==
    IF header = None \/ header[1].scheme # "Bearer"
    THEN Answer(401, "Unauthorized: No token provided")
    ELSE LET decoded == verifyToken(header[1].token)
         IN  IF decoded = None
             THEN Answer(401, "Unauthorized: Invalid token")
             ELSE CallNext(Some([id |-> decoded[1].id,
                                 username |-> decoded[1].username,
                                 role |-> decoded[1].role]))

\* mutant: the role is not looked at
adminMiddleware_NoRoleCheck(user) == CallNext(user)

adminMiddleware(user) ==
    IF user = None \/ user[1].role # "admin"
    THEN Answer(403, "Forbidden: Admin access required")
    ELSE CallNext(user)

\* mutant: the routes are registered without adminMiddleware
RunMiddleware_AuthOnly(header, adminOnly) ==
    LET a == authMiddleware(header)
    IN  [next |-> a.next, status |-> a.status, message |-> a.message,
         user |-> a.user, ran |-> <<"authMiddleware">>]

\* app.get(path, authMiddleware, adminMiddleware, handler): a middleware runs
\* only when the one before it called next(); ran lists those that ran
RunMiddleware(header, adminOnly) ==
    LET a == authMiddleware(header)
        b == adminMiddleware(a.user)
    IN  IF a.next /\ adminOnly
        THEN [next |-> b.next, status |-> b.status, message |-> b.message,
              user |-> b.user, ran |-> <<"authMiddleware", "adminMiddleware">>]
        ELSE [next |-> a.next, status |-> a.status, message |-> a.message,
              user |-> a.user, ran |-> <<"authMiddleware">>]

----------------------------------------------------------------------------
\* shared/schema: request body validation (zod)

MalformedEmail == "not-an-email"
Emails == {"admin@example.com", "user@example.com", "nobody@example.com"}

\* z.string().email(): the inputs of the model that match the pattern
IsEmail(s) == s \in Emails

loginSchema(body) == Len(body.username) >= 1 /\ Len(body.password) >= 1

requestPasswordResetSchema(body) == IsEmail(body.email)

\* token strings: 0 is the empty string, -1 a string no row ever holds,
\* i >= 1 the random string drawn for the row with id i
EmptyToken == 0
UnknownToken == -1

resetPasswordSchema(body) == body.token # EmptyToken /\ Len(body.password) >= 6

Roles == {"admin", "user"}

\* an optional field of a body is None or Some(value); JavaScript truthiness
\* of an optional string
Present(field) == field # None
Truthy(field) == field # None /\ field[1] # ""

createUserSchema(body) ==
    /\ Len(body.username) >= 3
    /\ IsEmail(body.email)
    /\ Len(body.password) >= 6
    /\ Len(body.name) >= 1
    /\ body.role \in Roles

updateUserSchema(body) ==
    /\ Present(body.username) => Len(body.username[1]) >= 3
    /\ Present(body.email) => IsEmail(body.email[1])
    /\ Present(body.password) => Len(body.password[1]) >= 6
    /\ Present(body.name) => Len(body.name[1]) >= 1
    /\ Present(body.role) => body.role[1] \in Roles

updateProfileSchema(body) ==
    /\ Present(body.name) => Len(body.name[1]) >= 1
    /\ Present(body.email) => IsEmail(body.email[1])
    /\ Present(body.newPassword) => Len(body.newPassword[1]) >= 6
    /\ ~(Truthy(body.newPassword) /\ ~Truthy(body.currentPassword))

----------------------------------------------------------------------------
\* server/storage.ts: DatabaseStorage

getUser(id) ==
    IF \E u \in users : u.id = id
    THEN Some(CHOOSE u \in users : u.id = id) ELSE None

getUserByUsername(username) ==
    IF \E u \in users : u.username = username
    THEN Some(CHOOSE u \in users : u.username = username) ELSE None

\* mutant: the WHERE clause is lost, the first row is returned
getUserByEmail_AnyRow(email) ==
    IF users # {} THEN Some(CHOOSE u \in users : TRUE) ELSE None

getUserByEmail(email) ==
    IF \E u \in users : u.email = email
    THEN Some(CHOOSE u \in users : u.email = email) ELSE None

\* Partial<InsertUser> with no column set
NoUpdates ==
    [username |-> None, email |-> None, password |-> None, name |-> None,
     role |-> None]

\* INSERT INTO users: the id is a fresh random UUID
createUser(insertUser) ==
    [id |-> nextUserId, username |-> insertUser.username,
     email |-> insertUser.email, password |-> insertUser.password,
     role |-> insertUser.role, name |-> insertUser.name]

\* mutant: the tables are created without UNIQUE
UniqueViolation_NoConstraint(row) == FALSE

\* username TEXT NOT NULL UNIQUE, email TEXT NOT NULL UNIQUE: a statement that
\* would leave row beside another row with its username or its email throws
UniqueViolation(row) ==
    \E u \in users :
        u.id # row.id /\ (u.username = row.username \/ u.email = row.email)

\* .set(updates): the columns that are present in updates are overwritten
SetColumns(u, updates) ==
    [id |-> u.id,
     username |-> IF Present(updates.username) THEN updates.username[1] ELSE u.username,
     email |-> IF Present(updates.email) THEN updates.email[1] ELSE u.email,
     password |-> IF Present(updates.password) THEN updates.password[1] ELSE u.password,
     role |-> IF Present(updates.role) THEN updates.role[1] ELSE u.role,
     name |-> IF Present(updates.name) THEN updates.name[1] ELSE u.name]

\* UPDATE users SET ... WHERE id = ... RETURNING *: the table after the update
updateUser(id, updates) ==
    {IF u.id = id THEN SetColumns(u, updates) ELSE u : u \in users}

\* DELETE FROM users WHERE id = ...
deleteUser(id) == {u \in users : u.id # id}

\* mutant: the reference is declared without ON DELETE CASCADE
OnDeleteCascade_NoAction(id) == passwordResetTokens

\* password_reset_tokens.user_id REFERENCES users(id) ON DELETE CASCADE
OnDeleteCascade(id) == {t \in passwordResetTokens : t.userId # id}

\* audit_logs.actor_id REFERENCES users(id) ON DELETE SET NULL
OnDeleteSetNull(id) ==
    [i \in DOMAIN auditLogs |->
        IF auditLogs[i].actorId = Some(id)
        THEN [auditLogs[i] EXCEPT !.actorId = None] ELSE auditLogs[i]]

\* the rows have no created_at in this model: the list is a set
getAllUsers == {excludePassword(u) : u \in users}

getUserCount == Cardinality(users)
getAdminCount == Cardinality({u \in users : u.role = "admin"})
getRegularUserCount == Cardinality({u \in users : u.role = "user"})

\* every row of a run was created less than `days` days ago: the clock of the
\* model stays below one week
getRecentUserCount(days) == Cardinality(users)

\* ORDER BY created_at DESC LIMIT limit OFFSET offset
getAuditLogs(limit, offset) ==
    LET n == Len(auditLogs)
        last == IF offset + limit < n THEN offset + limit ELSE n
    IN  [i \in 1..(IF last > offset THEN last - offset ELSE 0) |->
            auditLogs[n - (offset + i) + 1]]

getAuditLogCount == Len(auditLogs)

\* UPDATE users SET password = ... WHERE id = ...
updateUserPassword(id, hashed) ==
    {IF u.id = id THEN [u EXCEPT !.password = hashed] ELSE u : u \in users}

\* crypto.randomBytes(32) is a fresh value; expiresAt = new Date() + 1 hour
createPasswordResetToken(userId) ==
    [id |-> nextTokenId, userId |-> userId, token |-> nextTokenId,
     expiresAt |-> now + RESET_TTL_HOURS, usedAt |-> None]

\* mutant: gte instead of gt, a token is still accepted at its expiry
getValidPasswordResetToken_AtExpiry(token) ==
    LET rows == {t \in passwordResetTokens :
                    /\ t.token = token
                    /\ t.usedAt = None
                    /\ t.expiresAt >= now}
    IN  IF rows = {} THEN None ELSE Some(CHOOSE t \in rows : TRUE)

\* mutant: the isNull(usedAt) condition is lost
getValidPasswordResetToken_IgnoreUsed(token) ==
    LET rows == {t \in passwordResetTokens :
                    /\ t.token = token
                    /\ t.expiresAt > now}
    IN  IF rows = {} THEN None ELSE Some(CHOOSE t \in rows : TRUE)

getValidPasswordResetToken(token) ==
    LET rows == {t \in passwordResetTokens :
                    /\ t.token = token
                    /\ t.usedAt = None
                    /\ t.expiresAt > now}
    IN  IF rows = {} THEN None ELSE Some(CHOOSE t \in rows : TRUE)

\* mutant: the WHERE clause is lost, every row is marked
markPasswordResetTokenUsed_EveryRow(id) ==
    {[t EXCEPT !.usedAt = Some(Date)] : t \in passwordResetTokens}

markPasswordResetTokenUsed(id) ==
    {IF t.id = id THEN [t EXCEPT !.usedAt = Some(Date)] ELSE t :
        t \in passwordResetTokens}

\* mutant: the update matches the token id column instead of user_id
invalidateUserPasswordResetTokens_WrongColumn(userId) ==
    {IF t.id = userId /\ t.usedAt = None
     THEN [t EXCEPT !.usedAt = Some(Date)] ELSE t : t \in passwordResetTokens}

invalidateUserPasswordResetTokens(userId) ==
    {IF t.userId = userId /\ t.usedAt = None
     THEN [t EXCEPT !.usedAt = Some(Date)] ELSE t : t \in passwordResetTokens}

createAuditLog(log) == Append(auditLogs, log)

\* REFERENCES users(id): password_reset_tokens.user_id and audit_logs.actor_id
\* may hold only the id of a stored user; an insert that breaks this throws
UserExists(id) == \E u \in users : u.id = id

----------------------------------------------------------------------------
\* Requests

Idle == [route |-> "idle", pc |-> "idle", body |-> None, loc |-> None, resp |-> None]

\* res.status(status).json(body): the handler returns, its locals die
Respond(p, status, body) ==
    [handlers EXCEPT ![p].pc = "done", ![p].loc = None,
                     ![p].resp = [status |-> status, body |-> body]]

\* connection p carries no request in flight
Free(p) == handlers[p].pc \in {"idle", "done"}

InFlight(route) == {q \in Procs : handlers[q].route = route /\ ~Free(q)}

\* catch (error) { res.status(500).json({ message: "Internal server error" }) }
InternalServerError(p) == Respond(p, 500, [message |-> "Internal server error"])

GenericResetMessage ==
    "If an account exists with this email, a password reset link will be sent."

\* server/seed.ts
SeedUsers ==
    { [id |-> 1, username |-> "admin", email |-> "admin@example.com",
       password |-> hashPassword("admin123"), role |-> "admin",
       name |-> "Administrator"],
      [id |-> 2, username |-> "user", email |-> "user@example.com",
       password |-> hashPassword("user123"), role |-> "user",
       name |-> "Regular User"] }

Environments ==
    { [NODE_ENV |-> "production", SESSION_SECRET |-> Some("s3cr3t")],
      [NODE_ENV |-> "development", SESSION_SECRET |-> None] }

InitEnv(environments) ==
    /\ users = SeedUsers
    /\ passwordResetTokens = {}
    /\ nextTokenId = 1
    /\ auditLogs = <<>>
    /\ now = 0
    /\ env \in environments
    /\ handlers = [p \in Procs |-> Idle]
    /\ sessions = {}
    /\ nextUserId = Cardinality(SeedUsers) + 1
    /\ browser = [open |-> FALSE, localStorage |-> [token |-> None, user |-> None],
                  token |-> None, user |-> None, isLoading |-> TRUE]

Init == InitEnv(Environments)

\* the production deployment
InitProduction == InitEnv({e \in Environments : e.NODE_ENV = "production"})

----------------------------------------------------------------------------
\* POST /api/auth/request-password-reset

ResetEmails == Emails \cup {MalformedEmail}

RequestReset_Begin(p, email) ==
    /\ Free(p)
    /\ (nextTokenId - 1) + Cardinality(InFlight("request-password-reset")) < MaxTokens
    /\ LET body == [email |-> email]
           h == [handlers EXCEPT ![p] =
                    [route |-> "request-password-reset", pc |-> "getUserByEmail",
                     body |-> body,
                     loc |-> None,
                     resp |-> None]]
       IN  handlers' =
             IF requestPasswordResetSchema(body) THEN h
             ELSE [h EXCEPT ![p].pc = "done",
                            ![p].resp = [status |-> 400,
                                         body |-> [message |-> "Validation error"]]]
    /\ UNCHANGED <<users, passwordResetTokens, nextTokenId, auditLogs, now, env, sessions, nextUserId, browser>>

RequestReset_getUserByEmail(p) ==
    /\ handlers[p].route = "request-password-reset"
    /\ handlers[p].pc = "getUserByEmail"
    /\ LET user == getUserByEmail(handlers[p].body.email)
       IN  handlers' =
             IF user = None
             THEN Respond(p, 200, [message |-> GenericResetMessage, success |-> TRUE])
             ELSE [handlers EXCEPT
                      ![p].pc = "invalidateUserPasswordResetTokens",
                      ![p].loc = [user |-> user[1]]]
    /\ UNCHANGED <<users, passwordResetTokens, nextTokenId, auditLogs, now, env, sessions, nextUserId, browser>>

RequestReset_invalidate(p) ==
    /\ handlers[p].route = "request-password-reset"
    /\ handlers[p].pc = "invalidateUserPasswordResetTokens"
    /\ passwordResetTokens' =
          invalidateUserPasswordResetTokens(handlers[p].loc.user.id)
    /\ handlers' = [handlers EXCEPT ![p].pc = "createPasswordResetToken"]
    /\ UNCHANGED <<users, nextTokenId, auditLogs, now, env, sessions, nextUserId, browser>>

RequestReset_create(p) ==
    /\ handlers[p].route = "request-password-reset"
    /\ handlers[p].pc = "createPasswordResetToken"
    /\ LET resetToken == createPasswordResetToken(handlers[p].loc.user.id)
       IN  IF UserExists(resetToken.userId)
           THEN /\ passwordResetTokens' = passwordResetTokens \cup {resetToken}
                /\ nextTokenId' = nextTokenId + 1
                /\ handlers' = Respond(p, 200, [message |-> GenericResetMessage,
                                                success |-> TRUE,
                                                token |-> resetToken.token])
           ELSE /\ handlers' = InternalServerError(p)
                /\ UNCHANGED <<passwordResetTokens, nextTokenId>>
    /\ UNCHANGED <<users, auditLogs, now, env, sessions, nextUserId, browser>>

----------------------------------------------------------------------------
\* POST /api/auth/reset-password

TokenStrings == {EmptyToken, UnknownToken} \cup (1..MaxTokens)

\* request bodies: every token string with an acceptable password, and one body
\* that fails the schema
ResetBodies ==
    {[token |-> t, password |-> "newpw123"] : t \in TokenStrings \ {EmptyToken}}
        \cup {[token |-> UnknownToken, password |-> "short"]}

ResetPassword_Begin(p, body) ==
    /\ Free(p)
    /\ LET h == [handlers EXCEPT ![p] =
                    [route |-> "reset-password", pc |-> "getValidPasswordResetToken",
                     body |-> body, loc |-> None, resp |-> None]]
       IN  handlers' =
             IF resetPasswordSchema(body) THEN h
             ELSE [h EXCEPT ![p].pc = "done",
                            ![p].resp = [status |-> 400,
                                         body |-> [message |-> "Validation error"]]]
    /\ UNCHANGED <<users, passwordResetTokens, nextTokenId, auditLogs, now, env, sessions, nextUserId, browser>>

ResetPassword_getValidToken(p) ==
    /\ handlers[p].route = "reset-password"
    /\ handlers[p].pc = "getValidPasswordResetToken"
    /\ LET resetToken == getValidPasswordResetToken(handlers[p].body.token)
       IN  handlers' =
             IF resetToken = None
             THEN Respond(p, 400, [message |-> "Invalid or expired reset token"])
             ELSE [handlers EXCEPT ![p].pc = "hashPassword",
                                   ![p].loc = [resetToken |-> resetToken[1]]]
    /\ UNCHANGED <<users, passwordResetTokens, nextTokenId, auditLogs, now, env, sessions, nextUserId, browser>>

ResetPassword_hashPassword(p) ==
    /\ handlers[p].route = "reset-password"
    /\ handlers[p].pc = "hashPassword"
    /\ handlers' = [handlers EXCEPT
          ![p].pc = "updateUser",
          ![p].loc = [resetToken |-> handlers[p].loc.resetToken,
                      hashedPassword |-> hashPassword(handlers[p].body.password)]]
    /\ UNCHANGED <<users, passwordResetTokens, nextTokenId, auditLogs, now, env, sessions, nextUserId, browser>>

ResetPassword_updateUser(p) ==
    /\ handlers[p].route = "reset-password"
    /\ handlers[p].pc = "updateUser"
    /\ users' = updateUserPassword(handlers[p].loc.resetToken.userId,
                                   handlers[p].loc.hashedPassword)
    /\ handlers' = [handlers EXCEPT ![p].pc = "markPasswordResetTokenUsed"]
    /\ UNCHANGED <<passwordResetTokens, nextTokenId, auditLogs, now, env, sessions, nextUserId, browser>>

ResetPassword_markUsed(p) ==
    /\ handlers[p].route = "reset-password"
    /\ handlers[p].pc = "markPasswordResetTokenUsed"
    /\ passwordResetTokens' =
          markPasswordResetTokenUsed(handlers[p].loc.resetToken.id)
    /\ handlers' = Respond(p, 200,
          [message |-> "Password has been reset successfully. You can now log in with your new password.",
           success |-> TRUE])
    /\ UNCHANGED <<users, nextTokenId, auditLogs, now, env, sessions, nextUserId, browser>>

\* mutant: the token is marked used on the way out, as in a finally block
ResetPassword_updateUser_Throws_MarksUsed(p) ==
    /\ handlers[p].route = "reset-password"
    /\ handlers[p].pc = "updateUser"
    /\ passwordResetTokens' =
          markPasswordResetTokenUsed(handlers[p].loc.resetToken.id)
    /\ handlers' = InternalServerError(p)
    /\ UNCHANGED <<users, nextTokenId, auditLogs, now, env, sessions, nextUserId, browser>>

\* await storage.updateUser(...) rejects: the statement had no effect, control
\* passes to the catch, which answers 500
ResetPassword_updateUser_Throws(p) ==
    /\ handlers[p].route = "reset-password"
    /\ handlers[p].pc = "updateUser"
    /\ handlers' = InternalServerError(p)
    /\ UNCHANGED <<users, passwordResetTokens, nextTokenId, auditLogs, now, env,
                   sessions, nextUserId, browser>>

\* await storage.markPasswordResetTokenUsed(...) rejects, after the password
\* was written
ResetPassword_markUsed_Throws(p) ==
    /\ handlers[p].route = "reset-password"
    /\ handlers[p].pc = "markPasswordResetTokenUsed"
    /\ handlers' = InternalServerError(p)
    /\ UNCHANGED <<users, passwordResetTokens, nextTokenId, auditLogs, now, env,
                   sessions, nextUserId, browser>>

----------------------------------------------------------------------------
\* GET /api/auth/verify-reset-token

VerifyResetToken_Begin(p, token) ==
    /\ Free(p)
    /\ LET h == [handlers EXCEPT ![p] =
                    [route |-> "verify-reset-token",
                     pc |-> "getValidPasswordResetToken",
                     body |-> [token |-> token], loc |-> None, resp |-> None]]
       IN  handlers' =
             IF token = EmptyToken
             THEN [h EXCEPT ![p].pc = "done",
                            ![p].resp = [status |-> 400,
                                         body |-> [message |-> "Token is required",
                                                   valid |-> FALSE]]]
             ELSE h
    /\ UNCHANGED <<users, passwordResetTokens, nextTokenId, auditLogs, now, env, sessions, nextUserId, browser>>

VerifyResetToken_getValidToken(p) ==
    /\ handlers[p].route = "verify-reset-token"
    /\ handlers[p].pc = "getValidPasswordResetToken"
    /\ LET resetToken == getValidPasswordResetToken(handlers[p].body.token)
       IN  handlers' =
             IF resetToken = None
             THEN Respond(p, 400, [message |-> "Invalid or expired reset token",
                                   valid |-> FALSE])
             ELSE Respond(p, 200, [valid |-> TRUE])
    /\ UNCHANGED <<users, passwordResetTokens, nextTokenId, auditLogs, now, env, sessions, nextUserId, browser>>

----------------------------------------------------------------------------
\* POST /api/auth/login

LoginUsernames == {"admin", "user", "ghost", ""}
LoginPasswords == {"admin123", "newpw123"}

\* the request arrives: the schema is checked before the first await
Login_Arrives(p, username, password) ==
    /\ Free(p)
    /\ LET body == [username |-> username, password |-> password]
           h == [handlers EXCEPT ![p] =
                    [route |-> "login", pc |-> "getUserByUsername",
                     body |-> body, loc |-> None, resp |-> None]]
       IN  handlers' =
             IF loginSchema(body) THEN h
             ELSE [h EXCEPT ![p].pc = "done",
                            ![p].resp = [status |-> 400,
                                         body |-> [message |-> "Validation error"]]]
    /\ UNCHANGED <<users, passwordResetTokens, nextTokenId, auditLogs, now, env, sessions, nextUserId, browser>>

\* logins while the audit log holds fewer than MaxAudit entries
Login_Begin(p, username, password) ==
    /\ Len(auditLogs) + Cardinality(InFlight("login")) < MaxAudit
    /\ Login_Arrives(p, username, password)

\* mutant: an unknown username gets its own answer
Login_getUserByUsername_Leaky(p) ==
    /\ handlers[p].route = "login"
    /\ handlers[p].pc = "getUserByUsername"
    /\ LET user == getUserByUsername(handlers[p].body.username)
       IN  handlers' =
             IF user = None
             THEN Respond(p, 404, [message |-> "User not found"])
             ELSE [handlers EXCEPT ![p].pc = "comparePassword",
                                   ![p].loc = [user |-> user[1]]]
    /\ UNCHANGED <<users, passwordResetTokens, nextTokenId, auditLogs, now, env, sessions, nextUserId, browser>>

Login_getUserByUsername(p) ==
    /\ handlers[p].route = "login"
    /\ handlers[p].pc = "getUserByUsername"
    /\ LET user == getUserByUsername(handlers[p].body.username)
       IN  handlers' =
             IF user = None
             THEN Respond(p, 401, [message |-> "Invalid username or password"])
             ELSE [handlers EXCEPT ![p].pc = "comparePassword",
                                   ![p].loc = [user |-> user[1]]]
    /\ UNCHANGED <<users, passwordResetTokens, nextTokenId, auditLogs, now, env, sessions, nextUserId, browser>>

Login_comparePassword(p) ==
    /\ handlers[p].route = "login"
    /\ handlers[p].pc = "comparePassword"
    /\ LET user == handlers[p].loc.user
           isValid == comparePassword(handlers[p].body.password, user.password)
       IN  handlers' =
             IF ~isValid
             THEN Respond(p, 401, [message |-> "Invalid username or password"])
             ELSE [handlers EXCEPT
                      ![p].pc = "createAuditLog",
                      ![p].loc = [user |-> user,
                                  token |-> generateToken(excludePassword(user))]]
    /\ UNCHANGED <<users, passwordResetTokens, nextTokenId, auditLogs, now, env, sessions, nextUserId, browser>>

Login_createAuditLog(p) ==
    /\ handlers[p].route = "login"
    /\ handlers[p].pc = "createAuditLog"
    /\ LET user == handlers[p].loc.user
       IN  IF UserExists(user.id)
           THEN /\ auditLogs' = createAuditLog([actorId |-> Some(user.id),
                                                actorName |-> user.name,
                                                action |-> "login",
                                                targetId |-> None,
                                                targetName |-> None])
                /\ handlers' = Respond(p, 200, [token |-> handlers[p].loc.token,
                                                user |-> excludePassword(user)])
           ELSE /\ handlers' = InternalServerError(p)
                /\ UNCHANGED auditLogs
    /\ UNCHANGED <<users, passwordResetTokens, nextTokenId, now, env, sessions, nextUserId, browser>>

----------------------------------------------------------------------------
\* client/src/lib/auth.tsx: the browser keeps the token of a login response
Client_login(p) ==
    /\ handlers[p].route = "login"
    /\ handlers[p].pc = "done"
    /\ handlers[p].resp.status = 200
    /\ handlers[p].resp.body.token \notin sessions
    /\ sessions' = sessions \cup {handlers[p].resp.body.token}
    /\ UNCHANGED <<users, passwordResetTokens, nextTokenId, auditLogs, now, env,
                   handlers, nextUserId, browser>>

----------------------------------------------------------------------------
\* client/src/lib/auth.tsx: AuthProvider in one browser tab.  Each callback
\* runs to its end; the state setters it called take effect together when it
\* returns.

\* JSON.stringify(user): the text kept under the key "user"
JSON_stringify(value) == [text |-> "json", value |-> value]

\* JSON.parse(text): the value, or None when it throws
JSON_parse(text) == IF text.text = "json" THEN Some(text.value) ELSE None

\* what localStorage may hold when the tab is opened: nothing (a first
\* visit), or a token with a user entry that does not parse
StoredSessions ==
    {[token |-> None, user |-> None],
     [token |-> Some(GarbledToken), user |-> Some([text |-> "{", value |-> None])]}

\* the tab is opened: the component is created with its useState defaults
Browser_open(stored) ==
    /\ ~browser.open
    /\ browser' = [open |-> TRUE, localStorage |-> stored, token |-> None,
                   user |-> None, isLoading |-> TRUE]
    /\ UNCHANGED <<users, passwordResetTokens, nextTokenId, auditLogs, now, env,
                   handlers, sessions, nextUserId>>

\* the page is loaded again: localStorage stays, the component is new
Browser_reload ==
    /\ browser.open
    /\ ~browser.isLoading
    /\ browser' = [browser EXCEPT !.token = None, !.user = None,
                                  !.isLoading = TRUE]
    /\ UNCHANGED <<users, passwordResetTokens, nextTokenId, auditLogs, now, env,
                   handlers, sessions, nextUserId>>

\* useEffect(() => {...}, []): setToken is called before JSON.parse
AuthProvider_useEffect ==
    /\ browser.open
    /\ browser.isLoading
    /\ LET storedToken == browser.localStorage.token
           storedUser == browser.localStorage.user
       IN  browser' =
             IF storedToken # None /\ storedUser # None
             THEN IF JSON_parse(storedUser[1]) # None
                  THEN [browser EXCEPT !.token = storedToken,
                                       !.user = JSON_parse(storedUser[1]),
                                       !.isLoading = FALSE]
                  ELSE [browser EXCEPT !.token = storedToken,
                                       !.localStorage = [token |-> None,
                                                         user |-> None],
                                       !.isLoading = FALSE]
             ELSE [browser EXCEPT !.isLoading = FALSE]
    /\ UNCHANGED <<users, passwordResetTokens, nextTokenId, auditLogs, now, env,
                   handlers, sessions, nextUserId>>

\* login(data.token, data.user) with the answer to a login on connection p
AuthProvider_login(p) ==
    /\ browser.open
    /\ ~browser.isLoading
    /\ handlers[p].route = "login"
    /\ handlers[p].pc = "done"
    /\ handlers[p].resp.status = 200
    /\ LET newToken == handlers[p].resp.body.token
           newUser == handlers[p].resp.body.user
       IN  browser' = [browser EXCEPT
              !.token = Some(newToken),
              !.user = Some(newUser),
              !.localStorage = [token |-> Some(newToken),
                                user |-> Some(JSON_stringify(newUser))]]
    /\ UNCHANGED <<users, passwordResetTokens, nextTokenId, auditLogs, now, env,
                   handlers, sessions, nextUserId>>

AuthProvider_logout ==
    /\ browser.open
    /\ ~browser.isLoading
    /\ browser' = [browser EXCEPT
          !.token = None, !.user = None,
          !.localStorage = [token |-> None, user |-> None]]
    /\ UNCHANGED <<users, passwordResetTokens, nextTokenId, auditLogs, now, env,
                   handlers, sessions, nextUserId>>

\* updateUser(updatedUser) with the answer to a profile update on connection p
AuthProvider_updateUser(p) ==
    /\ browser.open
    /\ ~browser.isLoading
    /\ handlers[p].route = "profile-update"
    /\ handlers[p].pc = "done"
    /\ handlers[p].resp.status = 200
    /\ LET updatedUser == handlers[p].resp.body
       IN  browser' = [browser EXCEPT
              !.user = Some(updatedUser),
              !.localStorage.user = Some(JSON_stringify(updatedUser))]
    /\ UNCHANGED <<users, passwordResetTokens, nextTokenId, auditLogs, now, env,
                   handlers, sessions, nextUserId>>

\* isAuthenticated: !!token && !!user
isAuthenticated == browser.token # None /\ browser.user # None

----------------------------------------------------------------------------
\* Routes behind the middleware

\* tokens made by a party that knows only what the source shows
ForgedTokens ==
    {[id |-> 0, username |-> "mallory", role |-> r, iat |-> now,
      exp |-> now + SESSION_TTL_HOURS, sig |-> DEFAULT_SECRET] : r \in Roles}

\* the headers a browser sends: Bearer with the token it keeps
SessionHeaders == {Bearer(t) : t \in sessions}

\* the headers of the users' requests: a session token, or none that counts
UserHeaders ==
    {NoHeader, Basic(GarbledToken), Bearer(GarbledToken)} \cup SessionHeaders

Headers == UserHeaders \cup {Bearer(t) : t \in ForgedTokens}

AdminRoutes ==
    {"users-list", "users-create", "users-update", "users-delete",
     "dashboard-stats", "audit-logs"}

ProfileRoutes == {"profile-get", "profile-update"}

\* the audit entries written by the routes behind the middleware
AuditedOps ==
    Cardinality({i \in DOMAIN auditLogs : auditLogs[i].action # "login"})

\* A request arrives at a route: the middleware chain and the handler's code
\* up to its first await run without interruption.  early is the answer the
\* handler gives before that await (a validation error), or None.
Begin(p, route, body, early, pc) ==
    LET gate == RunMiddleware(body.authorization, route \in AdminRoutes)
        h == [route |-> route, pc |-> "done", body |-> body, loc |-> None,
              resp |-> None]
    IN  [handlers EXCEPT ![p] =
            IF ~gate.next
            THEN [h EXCEPT !.resp = [status |-> gate.status,
                                     body |-> [message |-> gate.message]]]
            ELSE IF early # None
            THEN [h EXCEPT !.resp = early[1]]
            ELSE [h EXCEPT !.pc = pc, !.loc = [reqUser |-> gate.user[1]]]]

ValidationError == [status |-> 400, body |-> [message |-> "Validation error"]]

At(p, route, pc) == handlers[p].route = route /\ handlers[p].pc = pc

----------------------------------------------------------------------------
\* GET /api/users
GetUsers_Begin(p, header) ==
    /\ Free(p)
    /\ handlers' = Begin(p, "users-list", [authorization |-> header], None,
                         "getAllUsers")
    /\ UNCHANGED <<users, passwordResetTokens, nextTokenId, auditLogs, now, env,
                   sessions, nextUserId, browser>>

GetUsers_getAllUsers(p) ==
    /\ At(p, "users-list", "getAllUsers")
    /\ handlers' = Respond(p, 200, getAllUsers)
    /\ UNCHANGED <<users, passwordResetTokens, nextTokenId, auditLogs, now, env,
                   sessions, nextUserId, browser>>

\* GET /api/dashboard/stats
RECENT_DAYS == 7

DashboardStats_Begin(p, header) ==
    /\ Free(p)
    /\ handlers' = Begin(p, "dashboard-stats", [authorization |-> header], None,
                         "getCounts")
    /\ UNCHANGED <<users, passwordResetTokens, nextTokenId, auditLogs, now, env,
                   sessions, nextUserId, browser>>

\* Promise.all of the four counts: the queries are issued together
DashboardStats_getCounts(p) ==
    /\ At(p, "dashboard-stats", "getCounts")
    /\ handlers' = Respond(p, 200, [totalUsers |-> getUserCount,
                                    adminUsers |-> getAdminCount,
                                    regularUsers |-> getRegularUserCount,
                                    recentUsers |-> getRecentUserCount(RECENT_DAYS)])
    /\ UNCHANGED <<users, passwordResetTokens, nextTokenId, auditLogs, now, env,
                   sessions, nextUserId, browser>>

\* GET /api/audit-logs, without limit and offset in the query
DEFAULT_LIMIT == 50
DEFAULT_OFFSET == 0

AuditLogs_Begin(p, header) ==
    /\ Free(p)
    /\ handlers' = Begin(p, "audit-logs", [authorization |-> header], None,
                         "getAuditLogs")
    /\ UNCHANGED <<users, passwordResetTokens, nextTokenId, auditLogs, now, env,
                   sessions, nextUserId, browser>>

AuditLogs_getAuditLogs(p) ==
    /\ At(p, "audit-logs", "getAuditLogs")
    /\ handlers' = Respond(p, 200, [logs |-> getAuditLogs(DEFAULT_LIMIT, DEFAULT_OFFSET),
                                    total |-> getAuditLogCount,
                                    limit |-> DEFAULT_LIMIT,
                                    offset |-> DEFAULT_OFFSET])
    /\ UNCHANGED <<users, passwordResetTokens, nextTokenId, auditLogs, now, env,
                   sessions, nextUserId, browser>>

\* GET /api/profile
GetProfile_Begin(p, header) ==
    /\ Free(p)
    /\ handlers' = Begin(p, "profile-get", [authorization |-> header], None,
                         "getUser")
    /\ UNCHANGED <<users, passwordResetTokens, nextTokenId, auditLogs, now, env,
                   sessions, nextUserId, browser>>

GetProfile_getUser(p) ==
    /\ At(p, "profile-get", "getUser")
    /\ LET user == getUser(handlers[p].loc.reqUser.id)
       IN  handlers' =
             IF user = None
             THEN Respond(p, 404, [message |-> "User not found"])
             ELSE Respond(p, 200, excludePassword(user[1]))
    /\ UNCHANGED <<users, passwordResetTokens, nextTokenId, auditLogs, now, env,
                   sessions, nextUserId, browser>>

----------------------------------------------------------------------------
\* POST /api/users
CreateUser_Begin(p, header, fields) ==
    /\ Free(p)
    /\ nextUserId <= MaxUsers
    /\ AuditedOps < MaxOps
    /\ LET body == [authorization |-> header, username |-> fields.username,
                    email |-> fields.email, password |-> fields.password,
                    name |-> fields.name, role |-> fields.role]
       IN  handlers' = Begin(p, "users-create", body,
                             IF createUserSchema(body) THEN None
                             ELSE Some(ValidationError),
                             "getUserByUsername")
    /\ UNCHANGED <<users, passwordResetTokens, nextTokenId, auditLogs, now, env,
                   sessions, nextUserId, browser>>

CreateUser_getUserByUsername(p) ==
    /\ At(p, "users-create", "getUserByUsername")
    /\ handlers' =
          IF getUserByUsername(handlers[p].body.username) # None
          THEN Respond(p, 400, [message |-> "Username already exists"])
          ELSE [handlers EXCEPT ![p].pc = "getUserByEmail"]
    /\ UNCHANGED <<users, passwordResetTokens, nextTokenId, auditLogs, now, env,
                   sessions, nextUserId, browser>>

\* the lookup by email, then await hashPassword, which touches only locals
CreateUser_getUserByEmail(p) ==
    /\ At(p, "users-create", "getUserByEmail")
    /\ handlers' =
          IF getUserByEmail(handlers[p].body.email) # None
          THEN Respond(p, 400, [message |-> "Email already exists"])
          ELSE [handlers EXCEPT
                  ![p].pc = "createUser",
                  ![p].loc = [reqUser |-> handlers[p].loc.reqUser,
                              hashedPassword |->
                                  hashPassword(handlers[p].body.password)]]
    /\ UNCHANGED <<users, passwordResetTokens, nextTokenId, auditLogs, now, env,
                   sessions, nextUserId, browser>>

CreateUser_createUser(p) ==
    /\ At(p, "users-create", "createUser")
    /\ LET body == handlers[p].body
           user == createUser([username |-> body.username, email |-> body.email,
                               password |-> handlers[p].loc.hashedPassword,
                               name |-> body.name, role |-> body.role])
       IN  IF UniqueViolation(user)
           THEN /\ handlers' = InternalServerError(p)
                /\ UNCHANGED <<users, nextUserId>>
           ELSE /\ users' = users \cup {user}
                /\ nextUserId' = nextUserId + 1
                /\ handlers' = [handlers EXCEPT
                      ![p].pc = "createAuditLog",
                      ![p].loc = [reqUser |-> handlers[p].loc.reqUser,
                                  user |-> user]]
    /\ UNCHANGED <<passwordResetTokens, nextTokenId, auditLogs, now, env, sessions, browser>>

\* req.user?.name || "System": req.user carries what authMiddleware put there
ActorName(reqUser) ==
    IF "name" \in DOMAIN reqUser THEN reqUser.name ELSE "System"

CreateUser_createAuditLog(p) ==
    /\ At(p, "users-create", "createAuditLog")
    /\ LET user == handlers[p].loc.user
           actor == handlers[p].loc.reqUser
       IN  IF UserExists(actor.id)
           THEN /\ auditLogs' = createAuditLog([actorId |-> Some(actor.id),
                                                actorName |-> ActorName(actor),
                                                action |-> "create_user",
                                                targetId |-> Some(user.id),
                                                targetName |-> Some(user.name)])
                /\ handlers' = Respond(p, 201, excludePassword(user))
           ELSE /\ handlers' = InternalServerError(p)
                /\ UNCHANGED auditLogs
    /\ UNCHANGED <<users, passwordResetTokens, nextTokenId, now, env, sessions,
                   nextUserId, browser>>

----------------------------------------------------------------------------
\* PATCH /api/users/:id
UsernameChanges(body, existingUser) ==
    Truthy(body.username) /\ body.username[1] # existingUser.username

EmailChanges(body, existingUser) ==
    Truthy(body.email) /\ body.email[1] # existingUser.email

UpdateUser_Begin(p, header, id, fields) ==
    /\ Free(p)
    /\ AuditedOps < MaxOps
    /\ LET body == [authorization |-> header, id |-> id,
                    username |-> fields.username, email |-> fields.email,
                    password |-> fields.password, name |-> fields.name,
                    role |-> fields.role]
       IN  handlers' = Begin(p, "users-update", body,
                             IF updateUserSchema(body) THEN None
                             ELSE Some(ValidationError),
                             "getUser")
    /\ UNCHANGED <<users, passwordResetTokens, nextTokenId, auditLogs, now, env,
                   sessions, nextUserId, browser>>

UpdateUser_getUser(p) ==
    /\ At(p, "users-update", "getUser")
    /\ LET body == handlers[p].body
           existingUser == getUser(body.id)
       IN  handlers' =
             IF existingUser = None
             THEN Respond(p, 404, [message |-> "User not found"])
             ELSE [handlers EXCEPT
                     ![p].pc = IF UsernameChanges(body, existingUser[1])
                               THEN "getUserByUsername"
                               ELSE IF EmailChanges(body, existingUser[1])
                               THEN "getUserByEmail"
                               ELSE "updateUser",
                     ![p].loc = [reqUser |-> handlers[p].loc.reqUser,
                                 existingUser |-> existingUser[1]]]
    /\ UNCHANGED <<users, passwordResetTokens, nextTokenId, auditLogs, now, env,
                   sessions, nextUserId, browser>>

UpdateUser_getUserByUsername(p) ==
    /\ At(p, "users-update", "getUserByUsername")
    /\ LET body == handlers[p].body
       IN  handlers' =
             IF getUserByUsername(body.username[1]) # None
             THEN Respond(p, 400, [message |-> "Username already exists"])
             ELSE [handlers EXCEPT
                     ![p].pc = IF EmailChanges(body, handlers[p].loc.existingUser)
                               THEN "getUserByEmail" ELSE "updateUser"]
    /\ UNCHANGED <<users, passwordResetTokens, nextTokenId, auditLogs, now, env,
                   sessions, nextUserId, browser>>

UpdateUser_getUserByEmail(p) ==
    /\ At(p, "users-update", "getUserByEmail")
    /\ handlers' =
          IF getUserByEmail(handlers[p].body.email[1]) # None
          THEN Respond(p, 400, [message |-> "Email already exists"])
          ELSE [handlers EXCEPT ![p].pc = "updateUser"]
    /\ UNCHANGED <<users, passwordResetTokens, nextTokenId, auditLogs, now, env,
                   sessions, nextUserId, browser>>

\* await hashPassword when a password is supplied, then the UPDATE
UpdateUser_updateUser(p) ==
    /\ At(p, "users-update", "updateUser")
    /\ LET body == handlers[p].body
           updates == [username |-> body.username, email |-> body.email,
                       password |-> IF Truthy(body.password)
                                    THEN Some(hashPassword(body.password[1]))
                                    ELSE body.password,
                       name |-> body.name, role |-> body.role]
           row == getUser(body.id)
       IN  IF row = None
           THEN /\ handlers' = Respond(p, 404, [message |-> "User not found"])
                /\ UNCHANGED users
           ELSE IF UniqueViolation(SetColumns(row[1], updates))
           THEN /\ handlers' = InternalServerError(p)
                /\ UNCHANGED users
           ELSE /\ users' = updateUser(body.id, updates)
                /\ handlers' = [handlers EXCEPT
                      ![p].pc = "createAuditLog",
                      ![p].loc = [reqUser |-> handlers[p].loc.reqUser,
                                  user |-> SetColumns(row[1], updates)]]
    /\ UNCHANGED <<passwordResetTokens, nextTokenId, auditLogs, now, env, sessions,
                   nextUserId, browser>>

UpdateUser_createAuditLog(p) ==
    /\ At(p, "users-update", "createAuditLog")
    /\ LET user == handlers[p].loc.user
           actor == handlers[p].loc.reqUser
       IN  IF UserExists(actor.id)
           THEN /\ auditLogs' = createAuditLog([actorId |-> Some(actor.id),
                                                actorName |-> ActorName(actor),
                                                action |-> "update_user",
                                                targetId |-> Some(user.id),
                                                targetName |-> Some(user.name)])
                /\ handlers' = Respond(p, 200, excludePassword(user))
           ELSE /\ handlers' = InternalServerError(p)
                /\ UNCHANGED auditLogs
    /\ UNCHANGED <<users, passwordResetTokens, nextTokenId, now, env, sessions,
                   nextUserId, browser>>

----------------------------------------------------------------------------
\* DELETE /api/users/:id
DeleteUser_Begin(p, header, id) ==
    /\ Free(p)
    /\ AuditedOps < MaxOps
    /\ LET body == [authorization |-> header, id |-> id]
           gate == RunMiddleware(header, TRUE)
       IN  handlers' = Begin(p, "users-delete", body,
                             IF gate.next /\ gate.user[1].id = id
                             THEN Some([status |-> 400,
                                        body |-> [message |->
                                            "Cannot delete your own account"]])
                             ELSE None,
                             "getUser")
    /\ UNCHANGED <<users, passwordResetTokens, nextTokenId, auditLogs, now, env,
                   sessions, nextUserId, browser>>

DeleteUser_getUser(p) ==
    /\ At(p, "users-delete", "getUser")
    /\ LET userToDelete == getUser(handlers[p].body.id)
       IN  handlers' =
             IF userToDelete = None
             THEN Respond(p, 404, [message |-> "User not found"])
             ELSE [handlers EXCEPT
                     ![p].pc = "deleteUser",
                     ![p].loc = [reqUser |-> handlers[p].loc.reqUser,
                                 userToDelete |-> userToDelete[1]]]
    /\ UNCHANGED <<users, passwordResetTokens, nextTokenId, auditLogs, now, env,
                   sessions, nextUserId, browser>>

\* the DELETE and, in the same statement, the ON DELETE actions of the rows
\* that reference the user
DeleteUser_deleteUser(p) ==
    /\ At(p, "users-delete", "deleteUser")
    /\ LET id == handlers[p].body.id
       IN  IF ~UserExists(id)
           THEN /\ handlers' = Respond(p, 404, [message |-> "User not found"])
                /\ UNCHANGED <<users, passwordResetTokens, auditLogs>>
           ELSE /\ users' = deleteUser(id)
                /\ passwordResetTokens' = OnDeleteCascade(id)
                /\ auditLogs' = OnDeleteSetNull(id)
                /\ handlers' = [handlers EXCEPT ![p].pc = "createAuditLog"]
    /\ UNCHANGED <<nextTokenId, now, env, sessions, nextUserId, browser>>

DeleteUser_createAuditLog(p) ==
    /\ At(p, "users-delete", "createAuditLog")
    /\ LET userToDelete == handlers[p].loc.userToDelete
           actor == handlers[p].loc.reqUser
       IN  IF UserExists(actor.id)
           THEN /\ auditLogs' = createAuditLog([actorId |-> Some(actor.id),
                                                actorName |-> ActorName(actor),
                                                action |-> "delete_user",
                                                targetId |-> Some(handlers[p].body.id),
                                                targetName |-> Some(userToDelete.name)])
                /\ handlers' = Respond(p, 204, None)
           ELSE /\ handlers' = InternalServerError(p)
                /\ UNCHANGED auditLogs
    /\ UNCHANGED <<users, passwordResetTokens, nextTokenId, now, env, sessions,
                   nextUserId, browser>>

----------------------------------------------------------------------------
\* PATCH /api/profile
ChangesPassword(body) == Truthy(body.newPassword) /\ Truthy(body.currentPassword)

\* the locals of the handler once its updates are complete: answer with the
\* stored user when there is nothing to update, else go on to the UPDATE
PatchProfile_Updates(p, loc) ==
    IF loc.updates = NoUpdates
    THEN Respond(p, 200, excludePassword(loc.user))
    ELSE [handlers EXCEPT ![p].pc = "updateUser", ![p].loc = loc]

PatchProfile_Begin(p, header, fields) ==
    /\ Free(p)
    /\ AuditedOps < MaxOps
    /\ LET body == [authorization |-> header, name |-> fields.name,
                    email |-> fields.email,
                    currentPassword |-> fields.currentPassword,
                    newPassword |-> fields.newPassword]
       IN  handlers' = Begin(p, "profile-update", body,
                             IF updateProfileSchema(body) THEN None
                             ELSE Some(ValidationError),
                             "getUser")
    /\ UNCHANGED <<users, passwordResetTokens, nextTokenId, auditLogs, now, env,
                   sessions, nextUserId, browser>>

PatchProfile_getUser(p) ==
    /\ At(p, "profile-update", "getUser")
    /\ LET body == handlers[p].body
           user == getUser(handlers[p].loc.reqUser.id)
           loc == [reqUser |-> handlers[p].loc.reqUser, user |-> user[1],
                   updates |-> [NoUpdates EXCEPT
                                   !.name = IF Truthy(body.name) THEN body.name
                                            ELSE None]]
       IN  handlers' =
             IF user = None
             THEN Respond(p, 404, [message |-> "User not found"])
             ELSE IF EmailChanges(body, user[1])
             THEN [handlers EXCEPT ![p].pc = "getUserByEmail", ![p].loc = loc]
             ELSE IF ChangesPassword(body)
             THEN [handlers EXCEPT ![p].pc = "comparePassword", ![p].loc = loc]
             ELSE PatchProfile_Updates(p, loc)
    /\ UNCHANGED <<users, passwordResetTokens, nextTokenId, auditLogs, now, env,
                   sessions, nextUserId, browser>>

PatchProfile_getUserByEmail(p) ==
    /\ At(p, "profile-update", "getUserByEmail")
    /\ LET body == handlers[p].body
           loc == [handlers[p].loc EXCEPT !.updates.email = body.email]
       IN  handlers' =
             IF getUserByEmail(body.email[1]) # None
             THEN Respond(p, 400, [message |-> "Email already exists"])
             ELSE IF ChangesPassword(body)
             THEN [handlers EXCEPT ![p].pc = "comparePassword", ![p].loc = loc]
             ELSE PatchProfile_Updates(p, loc)
    /\ UNCHANGED <<users, passwordResetTokens, nextTokenId, auditLogs, now, env,
                   sessions, nextUserId, browser>>

\* mutant: the result of the comparison is not looked at
PatchProfile_comparePassword_Unchecked(p) ==
    /\ At(p, "profile-update", "comparePassword")
    /\ handlers' = PatchProfile_Updates(p,
          [handlers[p].loc EXCEPT
              !.updates.password =
                  Some(hashPassword(handlers[p].body.newPassword[1]))])
    /\ UNCHANGED <<users, passwordResetTokens, nextTokenId, auditLogs, now, env,
                   sessions, nextUserId, browser>>

\* the comparison with the hash of the row read at getUser and, when it
\* succeeds, await hashPassword, which touches only locals
PatchProfile_comparePassword(p) ==
    /\ At(p, "profile-update", "comparePassword")
    /\ LET body == handlers[p].body
           isValid == comparePassword(body.currentPassword[1],
                                      handlers[p].loc.user.password)
           loc == [handlers[p].loc EXCEPT
                      !.updates.password = Some(hashPassword(body.newPassword[1]))]
       IN  handlers' =
             IF ~isValid
             THEN Respond(p, 400, [message |-> "Current password is incorrect"])
             ELSE PatchProfile_Updates(p, loc)
    /\ UNCHANGED <<users, passwordResetTokens, nextTokenId, auditLogs, now, env,
                   sessions, nextUserId, browser>>

PatchProfile_updateUser(p) ==
    /\ At(p, "profile-update", "updateUser")
    /\ LET loc == handlers[p].loc
           row == getUser(loc.reqUser.id)
       IN  IF row = None
           THEN /\ handlers' = Respond(p, 404, [message |-> "User not found"])
                /\ UNCHANGED users
           ELSE IF UniqueViolation(SetColumns(row[1], loc.updates))
           THEN /\ handlers' = InternalServerError(p)
                /\ UNCHANGED users
           ELSE /\ users' = updateUser(loc.reqUser.id, loc.updates)
                /\ handlers' = [handlers EXCEPT
                      ![p].pc = "createAuditLog",
                      ![p].loc = [reqUser |-> loc.reqUser, user |-> loc.user,
                                  updatedUser |-> SetColumns(row[1], loc.updates)]]
    /\ UNCHANGED <<passwordResetTokens, nextTokenId, auditLogs, now, env, sessions,
                   nextUserId, browser>>

PatchProfile_createAuditLog(p) ==
    /\ At(p, "profile-update", "createAuditLog")
    /\ LET loc == handlers[p].loc
       IN  IF UserExists(loc.reqUser.id)
           THEN /\ auditLogs' = createAuditLog(
                      [actorId |-> Some(loc.reqUser.id),
                       actorName |-> loc.user.name,
                       action |-> IF Truthy(handlers[p].body.newPassword)
                                  THEN "password_change" ELSE "profile_update",
                       targetId |-> Some(loc.reqUser.id),
                       targetName |-> Some(loc.updatedUser.name)])
                /\ handlers' = Respond(p, 200, excludePassword(loc.updatedUser))
           ELSE /\ handlers' = InternalServerError(p)
                /\ UNCHANGED auditLogs
    /\ UNCHANGED <<users, passwordResetTokens, nextTokenId, now, env, sessions,
                   nextUserId, browser>>

----------------------------------------------------------------------------
\* The clock advances

Tick ==
    /\ now < MaxTime
    /\ now' = now + 1
    /\ UNCHANGED <<users, passwordResetTokens, nextTokenId, auditLogs, env, handlers, sessions, nextUserId, browser>>

ResetBegin(p) ==
    \/ \E email \in ResetEmails : RequestReset_Begin(p, email)
    \/ \E body \in ResetBodies : ResetPassword_Begin(p, body)

ResetStep(p) ==
    \/ RequestReset_getUserByEmail(p)
    \/ RequestReset_invalidate(p)
    \/ RequestReset_create(p)
    \/ ResetPassword_getValidToken(p)
    \/ ResetPassword_hashPassword(p)
    \/ ResetPassword_updateUser(p)
    \/ ResetPassword_markUsed(p)

VerifyBegin(p) == \E token \in TokenStrings : VerifyResetToken_Begin(p, token)

VerifyStep(p) == VerifyResetToken_getValidToken(p)

LoginBegin(p) ==
    \E username \in LoginUsernames, password \in LoginPasswords :
        Login_Begin(p, username, password)

LoginStep(p) ==
    \/ Login_getUserByUsername(p)
    \/ Login_comparePassword(p)
    \/ Login_createAuditLog(p)

FirstProc == CHOOSE p \in Procs : \A q \in Procs : p <= q

\* a long idle period: one hour less than the life of a session token
Sleep ==
    /\ now + (SESSION_TTL_HOURS - 1) <= MaxClock
    /\ now' = now + (SESSION_TTL_HOURS - 1)
    /\ UNCHANGED <<users, passwordResetTokens, nextTokenId, auditLogs, env, handlers,
                   sessions, nextUserId, browser>>

\* request bodies of the routes behind the middleware
CreateFields ==
    {[username |-> un, email |-> em, password |-> "alice123", name |-> "Alice",
      role |-> "user"] :
        un \in {"alice", "user"}, em \in {"nobody@example.com", "user@example.com"}}
    \cup {[username |-> "al", email |-> "nobody@example.com",
           password |-> "alice123", name |-> "Alice", role |-> "user"]}

UpdateFields ==
    {[NoUpdates EXCEPT !.role = Some("user")],
     [NoUpdates EXCEPT !.password = Some("newpw123")],
     [NoUpdates EXCEPT !.username = Some("user")],
     [NoUpdates EXCEPT !.username = Some("alice")],
     [NoUpdates EXCEPT !.email = Some("user@example.com")],
     [NoUpdates EXCEPT !.email = Some("nobody@example.com")],
     [NoUpdates EXCEPT !.username = Some("al")]}

NoProfileFields ==
    [name |-> None, email |-> None, currentPassword |-> None, newPassword |-> None]

ProfileFields ==
    {[NoProfileFields EXCEPT !.name = Some("Renamed")],
     [NoProfileFields EXCEPT !.email = Some("user@example.com")],
     [NoProfileFields EXCEPT !.email = Some("nobody@example.com")],
     [NoProfileFields EXCEPT !.currentPassword = Some("admin123"),
                             !.newPassword = Some("newpw123")],
     [NoProfileFields EXCEPT !.name = Some("Renamed"),
                             !.currentPassword = Some("wrong-pw"),
                             !.newPassword = Some("newpw123")],
     [NoProfileFields EXCEPT !.newPassword = Some("newpw123")],
     [NoProfileFields EXCEPT !.currentPassword = Some("admin123")],
     [NoProfileFields EXCEPT !.name = Some("Renamed"),
                             !.currentPassword = Some("admin123")]}

ReadBegin(p, header) ==
    \/ GetUsers_Begin(p, header)
    \/ DashboardStats_Begin(p, header)
    \/ AuditLogs_Begin(p, header)
    \/ GetProfile_Begin(p, header)

ReadStep(p) ==
    \/ GetUsers_getAllUsers(p)
    \/ DashboardStats_getCounts(p)
    \/ AuditLogs_getAuditLogs(p)
    \/ GetProfile_getUser(p)

CreateStep(p) ==
    \/ CreateUser_getUserByUsername(p)
    \/ CreateUser_getUserByEmail(p)
    \/ CreateUser_createUser(p)
    \/ CreateUser_createAuditLog(p)

UpdateStep(p) ==
    \/ UpdateUser_getUser(p)
    \/ UpdateUser_getUserByUsername(p)
    \/ UpdateUser_getUserByEmail(p)
    \/ UpdateUser_updateUser(p)
    \/ UpdateUser_createAuditLog(p)

DeleteStep(p) ==
    \/ DeleteUser_getUser(p)
    \/ DeleteUser_deleteUser(p)
    \/ DeleteUser_createAuditLog(p)

ProfileStep(p) ==
    \/ PatchProfile_getUser(p)
    \/ PatchProfile_getUserByEmail(p)
    \/ PatchProfile_comparePassword(p)
    \/ PatchProfile_updateUser(p)
    \/ PatchProfile_createAuditLog(p)

\* the admin writes that change what a session token was issued for: a new
\* user, a role, a password, a deletion
AdminBegin(p, header) ==
    \/ \E fields \in {f \in CreateFields : createUserSchema(f)
                                            /\ ~UniqueViolation(createUser(f))} :
          CreateUser_Begin(p, header, fields)
    \/ \E u \in users, fields \in {f \in UpdateFields : f.role # None \/ f.password # None} :
          UpdateUser_Begin(p, header, u.id, fields)
    \/ \E u \in users : DeleteUser_Begin(p, header, u.id)

\* The password-reset routes, handled concurrently: any handler may resume at
\* any of its awaits.  Token checks (a single store call each) arrive on the
\* first connection.
Next ==
    \/ \E p \in Procs : ResetBegin(p)
    \/ \E p \in Procs : ResetStep(p)
    \/ VerifyBegin(FirstProc)
    \/ VerifyStep(FirstProc)
    \/ Tick

Spec == InitProduction /\ [][Next]_vars

\* Password resets of the stored users with issued token strings
PasswordChangeBegin(p) ==
    \/ \E u \in users : RequestReset_Begin(p, u.email)
    \/ \E t \in passwordResetTokens :
          ResetPassword_Begin(p, [token |-> t.token, password |-> "newpw123"])

\* Logins on both connections, racing each other and the password changes
\* made through the first connection
NextLogin ==
    \/ \E p \in Procs : LoginBegin(p)
    \/ \E p \in Procs : LoginStep(p)
    \/ PasswordChangeBegin(FirstProc)
    \/ ResetStep(FirstProc)
    \/ Tick

SpecLogin == InitProduction /\ [][NextLogin]_vars

\* All routes, requests handled one at a time: a single connection, whose next
\* request begins only after the previous one was answered
NextSeq ==
    \/ ResetBegin(FirstProc)
    \/ ResetStep(FirstProc)
    \/ VerifyBegin(FirstProc)
    \/ VerifyStep(FirstProc)
    \/ LoginBegin(FirstProc)
    \/ LoginStep(FirstProc)
    \/ Tick

SpecSeq == Init /\ [][NextSeq]_vars

\* the steps of the requests that AdminBegin starts
AdminStep(p) ==
    \/ CreateStep(p)
    \/ UpdateUser_getUser(p)
    \/ UpdateUser_updateUser(p)
    \/ UpdateUser_createAuditLog(p)
    \/ DeleteStep(p)

\* a production deployment whose environment supplies no SESSION_SECRET
Deployments ==
    Environments \cup {[NODE_ENV |-> "production", SESSION_SECRET |-> None]}

\* The routes behind the middleware, requests handled one at a time, with any
\* Authorization header; a browser logs in and keeps its token; the clock runs
\* past the life of a session token
NextGate ==
    \/ LoginBegin(FirstProc)
    \/ LoginStep(FirstProc)
    \/ Client_login(FirstProc)
    \/ \E header \in Headers : ReadBegin(FirstProc, header)
    \/ \E header \in UserHeaders : AdminBegin(FirstProc, header)
    \/ ReadStep(FirstProc)
    \/ AdminStep(FirstProc)
    \/ Tick
    \/ Sleep

SpecGate == InitEnv(Deployments) /\ [][NextGate]_vars

\* Every route, requests handled one at a time; the requests behind the
\* middleware carry the session token of the browser
NextRoutes ==
    \/ LoginBegin(FirstProc)
    \/ LoginStep(FirstProc)
    \/ Client_login(FirstProc)
    \/ \E header \in SessionHeaders : ReadBegin(FirstProc, header)
    \/ \E header \in SessionHeaders : AdminBegin(FirstProc, header)
    \/ \E header \in SessionHeaders, fields \in ProfileFields :
          PatchProfile_Begin(FirstProc, header, fields)
    \/ ReadStep(FirstProc)
    \/ AdminStep(FirstProc)
    \/ ProfileStep(FirstProc)
    \/ PasswordChangeBegin(FirstProc)
    \/ ResetStep(FirstProc)
    \/ \E t \in passwordResetTokens : VerifyResetToken_Begin(FirstProc, t.token)
    \/ VerifyStep(FirstProc)

SpecRoutes == InitProduction /\ [][NextRoutes]_vars

\* the seeded administrator logs in
AdminLoginBegin(p) == Login_Begin(p, "admin", "admin123")

\* requests that write a username or an email, and deletions
UsersBegin(p, header) ==
    \/ \E fields \in {f \in CreateFields : createUserSchema(f)} :
          CreateUser_Begin(p, header, fields)
    \/ \E u \in users,
          fields \in {f \in UpdateFields : updateUserSchema(f) /\ f.role = None
                                                              /\ f.password = None} :
          UpdateUser_Begin(p, header, u.id, fields)
    \/ \E u \in users : DeleteUser_Begin(p, header, u.id)
    \/ \E fields \in {f \in ProfileFields : f.email # None \/ f.newPassword # None} :
          PatchProfile_Begin(p, header, fields)

\* The administrator logs in on the first connection; then both connections
\* carry user management and profile requests with the session token, handled
\* concurrently
NextUsers ==
    \/ AdminLoginBegin(FirstProc)
    \/ LoginStep(FirstProc)
    \/ Client_login(FirstProc)
    \/ \E p \in Procs, header \in SessionHeaders : UsersBegin(p, header)
    \/ \E p \in Procs : CreateStep(p)
    \/ \E p \in Procs : UpdateStep(p)
    \/ \E p \in Procs : DeleteStep(p)
    \/ \E p \in Procs : ProfileStep(p)

SpecUsers == InitProduction /\ [][NextUsers]_vars

\* The administrator deletes users on the first connection while the second
\* carries the password-reset routes
NextCascade ==
    \/ AdminLoginBegin(FirstProc)
    \/ LoginStep(FirstProc)
    \/ Client_login(FirstProc)
    \/ \E header \in SessionHeaders, u \in users :
          DeleteUser_Begin(FirstProc, header, u.id)
    \/ DeleteStep(FirstProc)
    \/ \E p \in Procs \ {FirstProc} :
          \/ PasswordChangeBegin(p)
          \/ ResetStep(p)
          \/ \E token \in TokenStrings \ {EmptyToken} :
                \/ VerifyResetToken_Begin(p, token)
                \/ ResetPassword_Begin(p, [token |-> token, password |-> "newpw123"])
          \/ VerifyStep(p)
    \/ Tick

SpecCascade == InitProduction /\ [][NextCascade]_vars

\* server/seed.ts: the credentials of the seeded users
SeedCredentials ==
    {[username |-> "admin", password |-> "admin123"],
     [username |-> "user", password |-> "user123"]}

Logins ==
    Cardinality({i \in DOMAIN auditLogs : auditLogs[i].action = "login"})
        + Cardinality(InFlight("login"))

\* a seeded user signs in
SignIn(p) ==
    \E c \in SeedCredentials :
        /\ Logins < MaxLogins
        /\ Login_Arrives(p, c.username, c.password)

\* the requests of signed-in users and of callers without a token to the
\* routes that write users
AccountBegin(p, header) ==
    \/ AdminBegin(p, header)
    \/ \E fields \in ProfileFields : PatchProfile_Begin(p, header, fields)

\* The seeded users sign in, each in a browser of its own; their requests to
\* the routes that write users are handled one at a time
NextAudit ==
    \/ SignIn(FirstProc)
    \/ LoginStep(FirstProc)
    \/ Client_login(FirstProc)
    \/ \E header \in SessionHeaders \cup {NoHeader} : AccountBegin(FirstProc, header)
    \/ AdminStep(FirstProc)
    \/ ProfileStep(FirstProc)

SpecAudit == InitProduction /\ [][NextAudit]_vars

\* The password-reset routes with store calls that may fail; requests arrive
\* on either connection, one at a time, and a connection keeps the answer to
\* its last request
NextFault ==
    \/ \E p \in Procs : (\A q \in Procs : Free(q)) /\ PasswordChangeBegin(p)
    \/ \E p \in Procs : ResetStep(p)
    \/ \E p \in Procs : ResetPassword_updateUser_Throws(p)
    \/ \E p \in Procs : ResetPassword_markUsed_Throws(p)
    \/ Tick

SpecFault == InitProduction /\ [][NextFault]_vars

\* Resets submitted on the first connection race the reset requests that
\* arrive on the other connection
NextRace ==
    \/ \E t \in passwordResetTokens :
          ResetPassword_Begin(FirstProc, [token |-> t.token, password |-> "newpw123"])
    \/ \E p \in Procs \ {FirstProc}, u \in users : RequestReset_Begin(p, u.email)
    \/ \E p \in Procs : ResetStep(p)
    \/ Tick

SpecRace == InitProduction /\ [][NextRace]_vars

\* One browser tab and the server: the seeded users sign in through the tab,
\* change their profile with the token the tab holds, sign out, and load the
\* page again
NextClient ==
    \/ \E stored \in StoredSessions : Browser_open(stored)
    \/ Browser_reload
    \/ AuthProvider_useEffect
    \/ SignIn(FirstProc)
    \/ LoginStep(FirstProc)
    \/ AuthProvider_login(FirstProc)
    \/ AuthProvider_logout
    \/ \E fields \in ProfileFields :
          /\ browser.token # None
          /\ PatchProfile_Begin(FirstProc, Bearer(browser.token[1]), fields)
    \/ ProfileStep(FirstProc)
    \/ AuthProvider_updateUser(FirstProc)

SpecClient == InitProduction /\ [][NextClient]_vars

----------------------------------------------------------------------------
\* Vocabulary of the properties

\* spec 3 (a): a reset token is valid iff it is unused and unexpired
TokenValid(t) == t.usedAt = None /\ now < t.expiresAt

ValidTokensOf(userId) ==
    {t \in passwordResetTokens : t.userId = userId /\ TokenValid(t)}

Done(p, route) == handlers[p].route = route /\ handlers[p].pc = "done"

\* connection p takes a step of its handler in this transition
Stepped(p) == handlers'[p] # handlers[p]

InvalidTokenResponse ==
    [status |-> 400, body |-> [message |-> "Invalid or expired reset token"]]

----------------------------------------------------------------------------
\* C1: in every reachable state, whatever the interleaving of concurrent
\* request-password-reset handlers, each user has at most one valid reset
\* token (unused and unexpired).
C1_AtMostOneValidTokenPerUser ==
    \A u \in users : Cardinality(ValidTokensOf(u.id)) <= 1

\* C2: a reset token is consumed at most once: no two reset-password requests
\* that carried the same token string were both answered with success.
C2_TokenConsumedOnce ==
    \A p, q \in Procs :
        (/\ p # q
         /\ Done(p, "reset-password") /\ handlers[p].resp.status = 200
         /\ Done(q, "reset-password") /\ handlers[q].resp.status = 200)
        => handlers[p].body.token # handlers[q].body.token

----------------------------------------------------------------------------
\* C3: with requests handled one at a time, request-password-reset for an
\* existing user marks every unused token of that user as used, then adds
\* exactly one row, unused and expiring one hour from now; on completion every
\* earlier token of the user is invalid and the new one, whose string is in the
\* response, is valid.
C3_Invalidates(p) ==
    (/\ handlers[p].route = "request-password-reset"
     /\ handlers[p].pc = "invalidateUserPasswordResetTokens"
     /\ Stepped(p))
    => /\ \A t \in passwordResetTokens :
             t.userId = handlers[p].loc.user.id =>
                \E t2 \in passwordResetTokens' :
                    /\ t2.id = t.id /\ t2.token = t.token
                    /\ t2.usedAt # None
       /\ {t.id : t \in passwordResetTokens'} = {t.id : t \in passwordResetTokens}

C3_Creates(p) ==
    (/\ handlers[p].route = "request-password-reset"
     /\ handlers[p].pc = "createPasswordResetToken"
     /\ Stepped(p))
    => LET userId == handlers[p].loc.user.id
           added == passwordResetTokens' \ passwordResetTokens
       IN  /\ \A t \in passwordResetTokens : t.userId = userId => t.usedAt # None
           /\ passwordResetTokens \subseteq passwordResetTokens'
           /\ Cardinality(added) = 1
           /\ \A t \in added :
                 /\ t.userId = userId
                 /\ t.usedAt = None
                 /\ t.expiresAt = now + RESET_TTL_HOURS
                 /\ \A old \in passwordResetTokens : old.token # t.token
                 /\ handlers'[p].resp.status = 200
                 /\ handlers'[p].resp.body.token = t.token
           /\ handlers'[p].pc = "done"
           /\ {t \in passwordResetTokens' :
                 t.userId = userId /\ t.usedAt = None /\ now' < t.expiresAt} = added

C3_SequentialResetRequest ==
    [][\A p \in Procs : C3_Invalidates(p) /\ C3_Creates(p)]_vars

\* a second reset request of a user has just been answered: the first token
\* was invalidated by it (no password was ever reset), the second is valid
C3_Witness ==
    \E p \in Procs :
        /\ Done(p, "request-password-reset")
        /\ handlers[p].resp.status = 200
        /\ "token" \in DOMAIN handlers[p].resp.body
        /\ users = SeedUsers
        /\ \E old, new \in passwordResetTokens :
              /\ old.userId = new.userId
              /\ old.id < new.id
              /\ new.token = handlers[p].resp.body.token
              /\ old.usedAt # None /\ ~TokenValid(old)
              /\ TokenValid(new)

----------------------------------------------------------------------------
\* C4: a reset-password request whose token string, when it is looked up,
\* matches no row, or a used row, or a row at or past its expiry, is answered
\* 400 "Invalid or expired reset token" and changes no user and no token.
C4_Rejects(p) ==
    (/\ handlers[p].route = "reset-password"
     /\ handlers[p].pc = "getValidPasswordResetToken"
     /\ Stepped(p)
     /\ ~ \E t \in passwordResetTokens :
            t.token = handlers[p].body.token /\ TokenValid(t))
    => /\ handlers'[p].pc = "done"
       /\ handlers'[p].resp = InvalidTokenResponse
       /\ users' = users
       /\ passwordResetTokens' = passwordResetTokens

C4_InvalidTokenRejected == [][\A p \in Procs : C4_Rejects(p)]_vars

\* a token that reached its expiry unused was submitted and rejected
C4_Witness ==
    \E p \in Procs :
        /\ Done(p, "reset-password")
        /\ handlers[p].resp = InvalidTokenResponse
        /\ \E t \in passwordResetTokens :
              /\ t.token = handlers[p].body.token
              /\ t.usedAt = None
              /\ t.expiresAt = now

----------------------------------------------------------------------------
\* C5: verify-reset-token answers valid exactly when a row holds the token
\* string, is unused and expires strictly after now; no step of the check
\* changes a user or a token.
C5_Verifies(p) ==
    (Stepped(p) /\ handlers'[p].route = "verify-reset-token")
    => /\ users' = users
       /\ passwordResetTokens' = passwordResetTokens
       /\ handlers'[p].pc = "done" =>
             LET exists == \E t \in passwordResetTokens :
                              /\ t.token = handlers'[p].body.token
                              /\ t.usedAt = None
                              /\ t.expiresAt > now
             IN  /\ handlers'[p].resp.body.valid = exists
                 /\ (handlers'[p].resp.status = 200) = exists

C5_VerifyReportsValidity == [][\A p \in Procs : C5_Verifies(p)]_vars

\* the check answered valid for the string of an issued, unused, unexpired token
C5_Witness ==
    \E p \in Procs :
        /\ Done(p, "verify-reset-token")
        /\ handlers[p].resp.status = 200
        /\ handlers[p].resp.body.valid
        /\ \E t \in passwordResetTokens :
              t.token = handlers[p].body.token /\ TokenValid(t)

----------------------------------------------------------------------------
\* C6: any two request-password-reset requests with well-formed emails are
\* answered with the same status and the same body fields, whether or not the
\* email belongs to a stored user.
C6_ResetRequestResponseUniform ==
    \A p, q \in Procs :
        (/\ Done(p, "request-password-reset") /\ IsEmail(handlers[p].body.email)
         /\ Done(q, "request-password-reset") /\ IsEmail(handlers[q].body.email))
        => /\ handlers[p].resp.status = handlers[q].resp.status
           /\ DOMAIN handlers[p].resp.body = DOMAIN handlers[q].resp.body

\* C7: in production mode no response to request-password-reset carries a
\* token field.
C7_NoTokenInProductionResponse ==
    env.NODE_ENV = "production" =>
        \A p \in Procs :
            Done(p, "request-password-reset") =>
                "token" \notin DOMAIN handlers[p].resp.body

----------------------------------------------------------------------------
\* C8: request-password-reset for a well-formed email that matches no user is
\* answered with the generic success body and leaves the store as it was: no
\* row is added and no row is changed.
C8_NoEffect(p) ==
    (/\ handlers[p].route = "request-password-reset"
     /\ handlers[p].pc = "getUserByEmail"
     /\ Stepped(p)
     /\ ~ \E u \in users : u.email = handlers[p].body.email)
    => /\ handlers'[p].pc = "done"
       /\ handlers'[p].resp =
             [status |-> 200,
              body |-> [message |-> GenericResetMessage, success |-> TRUE]]
       /\ users' = users
       /\ passwordResetTokens' = passwordResetTokens
       /\ nextTokenId' = nextTokenId
       /\ auditLogs' = auditLogs

C8_UnknownEmailNoEffect == [][\A p \in Procs : C8_NoEffect(p)]_vars

\* an unknown email was answered while an unused token of some user is stored
C8_Witness ==
    \E p \in Procs :
        /\ Done(p, "request-password-reset")
        /\ IsEmail(handlers[p].body.email)
        /\ ~ \E u \in users : u.email = handlers[p].body.email
        /\ handlers[p].resp.status = 200
        /\ \E t \in passwordResetTokens : TokenValid(t)

----------------------------------------------------------------------------
\* C9: every login with well-formed input that does not succeed gets one and
\* the same response, 401 "Invalid username or password", which carries no
\* token, whether the username is unknown or the password is wrong.
InvalidCredentialsResponse ==
    [status |-> 401, body |-> [message |-> "Invalid username or password"]]

C9_LoginFailuresIndistinguishable ==
    \A p \in Procs :
        (Done(p, "login") /\ loginSchema(handlers[p].body)
            /\ handlers[p].resp.status # 200)
        => handlers[p].resp = InvalidCredentialsResponse

\* one login failed on an unknown username, another on a wrong password
C9_Witness ==
    \E p, q \in Procs :
        /\ Done(p, "login") /\ handlers[p].resp.status = 401
        /\ Done(q, "login") /\ handlers[q].resp.status = 401
        /\ ~ \E u \in users : u.username = handlers[p].body.username
        /\ \E u \in users :
              /\ u.username = handlers[q].body.username
              /\ u.password # hashPassword(handlers[q].body.password)
        /\ handlers[p].resp = handlers[q].resp

----------------------------------------------------------------------------
\* C10: a login whose username is stored and whose password is the one hashed
\* in the row it read is answered 200 with a token that verifies to that row's
\* id and role, and appends an audit entry of kind login for that user; a login
\* that fails leaves the audit log as it was, and an entry of kind login is
\* appended by nothing but a login answered 200.
C10_Lookup(p) ==
    (/\ handlers[p].route = "login"
     /\ handlers[p].pc = "getUserByUsername"
     /\ Stepped(p))
    => /\ auditLogs' = auditLogs
       /\ IF \E u \in users : u.username = handlers[p].body.username
          THEN /\ handlers'[p].pc = "comparePassword"
               /\ handlers'[p].loc.user \in users
               /\ handlers'[p].loc.user.username = handlers[p].body.username
          ELSE /\ handlers'[p].pc = "done"
               /\ handlers'[p].resp.status = 401

C10_Compare(p) ==
    (/\ handlers[p].route = "login"
     /\ handlers[p].pc = "comparePassword"
     /\ Stepped(p))
    => /\ auditLogs' = auditLogs
       /\ IF handlers[p].loc.user.password = hashPassword(handlers[p].body.password)
          THEN /\ handlers'[p].pc = "createAuditLog"
               /\ handlers'[p].loc.user = handlers[p].loc.user
          ELSE /\ handlers'[p].pc = "done"
               /\ handlers'[p].resp.status = 401

C10_Success(p) ==
    (/\ handlers[p].route = "login"
     /\ handlers[p].pc = "createAuditLog"
     /\ Stepped(p))
    => LET user == handlers[p].loc.user
           verified == (verifyToken(handlers[p].resp.body.token))'
       IN  /\ handlers'[p].pc = "done"
           /\ handlers'[p].resp.status = 200
           /\ verified # None
           /\ verified[1].id = user.id
           /\ verified[1].role = user.role
           /\ Len(auditLogs') = Len(auditLogs) + 1
           /\ SubSeq(auditLogs', 1, Len(auditLogs)) = auditLogs
           /\ auditLogs'[Len(auditLogs')].action = "login"
           /\ auditLogs'[Len(auditLogs')].actorId = Some(user.id)

C10_OnlySuccessfulLogins ==
    auditLogs' # auditLogs =>
        \E p \in Procs :
            /\ handlers[p].route = "login"
            /\ handlers[p].pc = "createAuditLog"
            /\ Stepped(p)
            /\ handlers'[p].resp.status = 200

C10_LoginIssuesTokenAndAudits ==
    [][/\ \A p \in Procs : C10_Lookup(p) /\ C10_Compare(p) /\ C10_Success(p)
       /\ C10_OnlySuccessfulLogins]_vars

\* a login was answered 200: its token verifies to the user in the response
\* and the newest audit entry is that user's login
C10_Witness ==
    \E p \in Procs :
        /\ Done(p, "login")
        /\ handlers[p].resp.status = 200
        /\ verifyToken(handlers[p].resp.body.token) # None
        /\ verifyToken(handlers[p].resp.body.token)[1].id
              = handlers[p].resp.body.user.id
        /\ Len(auditLogs) >= 1
        /\ auditLogs[Len(auditLogs)].action = "login"
        /\ auditLogs[Len(auditLogs)].actorId = Some(handlers[p].resp.body.user.id)

----------------------------------------------------------------------------
\* Vocabulary of the claims about the middleware

GatedRoutes == AdminRoutes \cup ProfileRoutes

\* connection p receives a new request in this transition
Arrives(p) == Free(p) /\ Stepped(p)

\* what a session token asserts
Claims(token) == [id |-> token.id, username |-> token.username, role |-> token.role]

MiddlewareMessages ==
    {"Unauthorized: No token provided", "Unauthorized: Invalid token",
     "Forbidden: Admin access required"}

\* the request of p was answered by a middleware: its handler never ran
AnsweredByMiddleware(h) ==
    /\ h.pc = "done"
    /\ h.resp.status \in {401, 403}
    /\ h.resp.body.message \in MiddlewareMessages

----------------------------------------------------------------------------
\* C11: a token made by generateToken verifies to the id, username and role it
\* was made for while fewer than 24 hours have passed since it was issued, and
\* verifies to the invalid value from 24 hours after issuance on.
C11_SessionTokenRoundTrip ==
    /\ \A u \in users :
          verifyToken(generateToken(excludePassword(u)))
              = Some([id |-> u.id, username |-> u.username, role |-> u.role,
                      iat |-> now, exp |-> now + SESSION_TTL_HOURS])
    /\ \A t \in sessions :
          IF now - t.iat < SESSION_TTL_HOURS
          THEN /\ verifyToken(t) # None
               /\ Claims(verifyToken(t)[1]) = Claims(t)
          ELSE verifyToken(t) = None

\* exactly 24 hours after a login its token no longer verifies
C11_Witness ==
    \E t \in sessions :
        /\ now = t.iat + SESSION_TTL_HOURS
        /\ verifyToken(t) = None
        /\ \E u \in users : Claims(t) = Claims(u)

----------------------------------------------------------------------------
\* C12: a request to an admin-only route with no Authorization header, a
\* header that is not Bearer, or a token that does not verify is answered 401
\* by authMiddleware and the role check does not run; with a token that
\* verifies and a role other than admin it is answered 403; the handler runs
\* only for a token that verifies and whose role is admin.
C12_Gate(p) ==
    (Arrives(p) /\ handlers'[p].route \in AdminRoutes) =>
        LET header == handlers'[p].body.authorization
            verifies == /\ header # None
                        /\ header[1].scheme = "Bearer"
                        /\ verifyToken(header[1].token) # None
            h == handlers'[p]
        IN  /\ ~verifies =>
                  /\ h.pc = "done"
                  /\ h.resp.status = 401
                  /\ h.resp.body.message \in {"Unauthorized: No token provided",
                                               "Unauthorized: Invalid token"}
                  /\ RunMiddleware(header, TRUE).ran = <<"authMiddleware">>
            /\ (verifies /\ header[1].token.role # "admin") =>
                  /\ h.pc = "done"
                  /\ h.resp = [status |-> 403,
                               body |-> [message |-> "Forbidden: Admin access required"]]
            /\ ~AnsweredByMiddleware(h) =>
                  verifies /\ header[1].token.role = "admin"

C12_HandlerRuns(p) ==
    (Stepped(p) /\ ~Free(p) /\ handlers[p].route \in AdminRoutes) =>
        /\ handlers[p].loc.reqUser.role = "admin"
        /\ handlers[p].body.authorization[1].token.sig = JWT_SECRET

C12_AdminRoutesGated ==
    [][\A p \in Procs : C12_Gate(p) /\ C12_HandlerRuns(p)]_vars

\* an admin-only route answered 403 to a token that verifies with role user
C12_Witness ==
    \E p \in Procs :
        /\ handlers[p].route \in AdminRoutes
        /\ handlers[p].pc = "done"
        /\ handlers[p].resp.status = 403
        /\ verifyToken(handlers[p].body.authorization[1].token) # None
        /\ handlers[p].body.authorization[1].token.role = "user"

----------------------------------------------------------------------------
\* C13: a request that carries a session token kept by a browser passes
\* authMiddleware exactly when fewer than 24 hours have passed since the token
\* was issued, and then acts under the id, username and role of the token,
\* whatever the users table holds by then.
C13_Accepts(p) ==
    (/\ Arrives(p)
     /\ handlers'[p].route \in GatedRoutes
     /\ handlers'[p].body.authorization \in SessionHeaders) =>
        LET t == handlers'[p].body.authorization[1].token
            h == handlers'[p]
        IN  /\ (h.pc = "done" /\ h.resp.status = 401) <=> now >= t.iat + SESSION_TTL_HOURS
            /\ h.pc # "done" => h.loc.reqUser = Claims(t)
            /\ (h.pc = "done" /\ h.resp.status = 403) <=>
                  /\ now < t.iat + SESSION_TTL_HOURS
                  /\ h.route \in AdminRoutes
                  /\ t.role # "admin"

C13_TokenOutlivesStore == [][\A p \in Procs : C13_Accepts(p)]_vars

\* an admin-only handler runs for a token issued to an admin whose stored role
\* is user by now
C13_Witness ==
    \E p \in Procs :
        /\ handlers[p].route \in AdminRoutes
        /\ ~Free(p)
        /\ handlers[p].body.authorization \in SessionHeaders
        /\ handlers[p].loc.reqUser.role = "admin"
        /\ \E u \in users :
              /\ u.id = handlers[p].loc.reqUser.id
              /\ u.role = "user"

----------------------------------------------------------------------------
\* C14: in production no session token is issued under the secret that
\* appears in the source, and no request whose token is signed with that
\* secret passes authMiddleware.
C14_NoPublicSecretInProduction ==
    env.NODE_ENV = "production" =>
        /\ \A t \in sessions : t.sig # DEFAULT_SECRET
        /\ \A p \in Procs :
              (/\ handlers[p].route \in GatedRoutes
               /\ handlers[p].body.authorization \in {Bearer(t) : t \in ForgedTokens})
              => /\ handlers[p].pc = "done"
                 /\ handlers[p].resp.status = 401

----------------------------------------------------------------------------
\* C15: deleting a user removes the user's reset tokens in the same step; no
\* reset token ever references an absent user; a token string is never issued
\* twice; so verify-reset-token and reset-password with a string whose row went
\* with its user find no row and answer 400.
FormerTokenString(token) ==
    /\ token \in 1..(nextTokenId - 1)
    /\ ~ \E t \in passwordResetTokens : t.token = token

C15_Lookup(p) ==
    (/\ handlers[p].route \in {"reset-password", "verify-reset-token"}
     /\ handlers[p].pc = "getValidPasswordResetToken"
     /\ Stepped(p)
     /\ FormerTokenString(handlers[p].body.token))
    => /\ handlers'[p].pc = "done"
       /\ handlers'[p].resp.status = 400
       /\ handlers'[p].resp.body.message = "Invalid or expired reset token"
       /\ users' = users

C15_Step ==
    /\ \A t \in passwordResetTokens' : \E u \in users' : u.id = t.userId
    /\ \A u \in users :
          (~ \E v \in users' : v.id = u.id) =>
              /\ ~ \E t \in passwordResetTokens' : t.userId = u.id
              /\ \A t \in passwordResetTokens :
                    t.userId # u.id => t \in passwordResetTokens'
    /\ \A t \in passwordResetTokens' :
          (~ \E old \in passwordResetTokens : old.token = t.token) =>
              t.token >= nextTokenId /\ t.token < nextTokenId'
    /\ \A p \in Procs : C15_Lookup(p)

C15_DeleteCascadesToTokens == [][C15_Step]_vars

\* a user who held a reset token was deleted, and reset-password with the
\* token's string was then refused
C15_Witness ==
    \E p \in Procs :
        /\ Done(p, "reset-password")
        /\ handlers[p].resp = InvalidTokenResponse
        /\ FormerTokenString(handlers[p].body.token)
        /\ \E u \in SeedUsers : ~UserExists(u.id)

----------------------------------------------------------------------------
\* C16: in every reachable state no two stored users share a username and no
\* two stored users share an email.
C16_UsernameAndEmailUnique ==
    \A u, v \in users :
        u # v => /\ u.id # v.id
                 /\ u.username # v.username
                 /\ u.email # v.email

\* two requests wrote concurrently: a new user is stored and the other
\* request's write was refused by the table
C16_Witness ==
    /\ \E u \in users : u \notin SeedUsers /\ u.id >= nextUserId - 1
    /\ \E p \in Procs :
          /\ handlers[p].route \in {"users-create", "users-update", "profile-update"}
          /\ handlers[p].pc = "done"
          /\ handlers[p].resp.status = 500

----------------------------------------------------------------------------
\* C17: a well-formed create, admin update or profile update that is refused
\* while another user holds its username or its email is answered 400 with the
\* conflict message.
ConflictMessages == {"Username already exists", "Email already exists"}

HeldByAnother(id, username, email) ==
    \E u \in users :
        /\ u.id # id
        /\ \/ Truthy(username) /\ u.username = username[1]
           \/ Truthy(email) /\ u.email = email[1]

C17_ConflictAnswered400 ==
    \A p \in Procs :
        LET h == handlers[p]
            conflict ==
                CASE h.route = "users-create" ->
                        /\ createUserSchema(h.body)
                        /\ h.resp.status # 201
                        /\ HeldByAnother(0, Some(h.body.username), Some(h.body.email))
                  [] h.route = "users-update" ->
                        /\ updateUserSchema(h.body)
                        /\ h.resp.status \notin {200, 404}
                        /\ HeldByAnother(h.body.id, h.body.username, h.body.email)
                  [] h.route = "profile-update" ->
                        /\ updateProfileSchema(h.body)
                        /\ h.resp.status \notin {200, 404}
                        /\ HeldByAnother(h.body.authorization[1].token.id, None,
                                         h.body.email)
                  [] OTHER -> FALSE
        IN  (h.pc = "done" /\ h.resp.status \notin {401, 403} /\ conflict) =>
                /\ h.resp.status = 400
                /\ h.resp.body.message \in ConflictMessages

----------------------------------------------------------------------------
\* C18: no response body of any route holds a password field: not the body
\* itself, not the user in a login response, not a row of the users list, not
\* an entry of the audit log list.
NoPasswordField(h) ==
    IF h.resp.status = 200 /\ h.route = "users-list"
    THEN \A u \in h.resp.body : "password" \notin DOMAIN u
    ELSE IF h.resp.status = 200 /\ h.route = "audit-logs"
    THEN \A i \in DOMAIN h.resp.body.logs :
            "password" \notin DOMAIN h.resp.body.logs[i]
    ELSE IF h.resp.status = 200 /\ h.route = "login"
    THEN /\ "password" \notin DOMAIN h.resp.body
         /\ "password" \notin DOMAIN h.resp.body.user
    ELSE "password" \notin DOMAIN h.resp.body

C18_NoPasswordInResponses ==
    \A p \in Procs : handlers[p].resp # None => NoPasswordField(handlers[p])

\* a profile update that changed the password was answered with the user,
\* whose stored row holds the new hash
C18_Witness ==
    \E p \in Procs :
        /\ Done(p, "profile-update")
        /\ handlers[p].resp.status = 200
        /\ Truthy(handlers[p].body.newPassword)
        /\ \E u \in users :
              /\ u.id = handlers[p].resp.body.id
              /\ u.password = hashPassword(handlers[p].body.newPassword[1])
        /\ "password" \notin DOMAIN handlers[p].resp.body

----------------------------------------------------------------------------
\* C19: a profile update that passed the middleware and supplies exactly one
\* of currentPassword and newPassword is answered 400.
C19_OnePasswordFieldRejected ==
    \A p \in Procs :
        (/\ Done(p, "profile-update")
         /\ handlers[p].resp.status # 401
         /\ Present(handlers[p].body.currentPassword)
                # Present(handlers[p].body.newPassword))
        => handlers[p].resp.status = 400

----------------------------------------------------------------------------
\* C20: a step of the profile route changes a stored password only at its
\* UPDATE, for a request that supplied both currentPassword and newPassword
\* and whose currentPassword verified against the stored hash, and it changes
\* the password of the token's user only; when currentPassword does not verify
\* against the stored hash the request is answered 400 and no user row
\* changes, at that step or at any earlier step of the request.
PasswordOf(table, id) == {u.password : u \in {v \in table : v.id = id}}

C20_Step(p) ==
    (handlers[p].route = "profile-update" /\ Stepped(p) /\ ~Free(p)) =>
        LET body == handlers[p].body
            id == handlers[p].loc.reqUser.id
        IN  /\ handlers[p].pc # "updateUser" => users' = users
            /\ (\E u \in users : PasswordOf(users', u.id) # {u.password}
                                     /\ PasswordOf(users', u.id) # {}) =>
                  /\ handlers[p].pc = "updateUser"
                  /\ ChangesPassword(body)
                  /\ comparePassword(body.currentPassword[1],
                                     handlers[p].loc.user.password)
                  /\ \A u \in users : u.id # id => u \in users'
                  /\ PasswordOf(users', id) = {hashPassword(body.newPassword[1])}
            /\ handlers[p].pc = "comparePassword" =>
                  /\ PasswordOf(users, id) \subseteq {handlers[p].loc.user.password}
                  /\ ~comparePassword(body.currentPassword[1],
                                      handlers[p].loc.user.password) =>
                        /\ handlers'[p].pc = "done"
                        /\ handlers'[p].resp =
                              [status |-> 400,
                               body |-> [message |-> "Current password is incorrect"]]
                        /\ users' = users

C20_ProfilePasswordChange == [][\A p \in Procs : C20_Step(p)]_vars

\* a request with a name and a wrong current password was answered 400 and
\* the name it carried is not stored
C20_Witness ==
    \E p \in Procs :
        /\ Done(p, "profile-update")
        /\ handlers[p].resp.status = 400
        /\ handlers[p].resp.body.message = "Current password is incorrect"
        /\ Present(handlers[p].body.name)
        /\ \A u \in users :
              /\ u.name # handlers[p].body.name[1]
              /\ u.password # hashPassword(handlers[p].body.newPassword[1])

----------------------------------------------------------------------------
\* C21: the audit log is append-only and its entries are immutable: every
\* step keeps every stored entry, at its place and with every field as it
\* was, also the step that deletes the user who was the entry's actor.
C21_AuditLogAppendOnly ==
    [][/\ Len(auditLogs') >= Len(auditLogs)
       /\ \A i \in DOMAIN auditLogs : auditLogs'[i] = auditLogs[i]]_vars

----------------------------------------------------------------------------
\* C22: every critical action that was answered with success has an audit
\* entry of its kind: login, create_user, update_user, delete_user,
\* profile_update, password_change, password_reset_request (a reset request
\* for a stored user, which is the one answered with a token) and
\* password_reset_complete.
Audited(action) == \E i \in DOMAIN auditLogs : auditLogs[i].action = action

AuditedAbout(action, id) ==
    \E i \in DOMAIN auditLogs :
        auditLogs[i].action = action /\ auditLogs[i].targetId = Some(id)

SucceededAudited(h) ==
    CASE h.route = "login" -> Audited("login")
      [] h.route = "users-create" -> AuditedAbout("create_user", h.resp.body.id)
      [] h.route = "users-update" -> AuditedAbout("update_user", h.body.id)
      [] h.route = "users-delete" -> AuditedAbout("delete_user", h.body.id)
      [] h.route = "profile-update" ->
            IF ChangesPassword(h.body)
            THEN AuditedAbout("password_change", h.resp.body.id)
            ELSE Truthy(h.body.name) =>
                    AuditedAbout("profile_update", h.resp.body.id)
      [] h.route = "request-password-reset" ->
            "token" \in DOMAIN h.resp.body => Audited("password_reset_request")
      [] h.route = "reset-password" -> Audited("password_reset_complete")
      [] OTHER -> TRUE

C22_CriticalActionsAudited ==
    \A p \in Procs :
        (handlers[p].pc = "done" /\ handlers[p].resp.status \in {200, 201, 204})
            => SucceededAudited(handlers[p])

----------------------------------------------------------------------------
\* C29: the audit entry of an administrator's create, update or delete names
\* the administrator: its actorId is the id in the request's session token
\* and its actorName is the stored name of that user, not "System".
AdminActions ==
    [route \in {"users-create", "users-update", "users-delete"} |->
        CASE route = "users-create" -> "create_user"
          [] route = "users-update" -> "update_user"
          [] route = "users-delete" -> "delete_user"]

C29_AuditEntryNamesAdmin ==
    \A p \in Procs :
        LET h == handlers[p]
        IN  (/\ h.pc = "done"
             /\ h.route \in DOMAIN AdminActions
             /\ h.resp.status \in {200, 201, 204}) =>
                LET actor == h.body.authorization[1].token.id
                IN  \E i \in DOMAIN auditLogs :
                        /\ auditLogs[i].action = AdminActions[h.route]
                        /\ auditLogs[i].actorId = Some(actor)
                        /\ auditLogs[i].actorName # "System"
                        /\ \E u \in users : /\ u.id = actor
                                             /\ u.name = auditLogs[i].actorName

----------------------------------------------------------------------------
\* C23: when the password update of reset-password fails, the request is
\* answered 500 and neither a user nor a token changes: the token is as
\* unused as it was; and usedAt of a token is set by a reset-password request
\* only at its markPasswordResetTokenUsed, which follows a password update
\* that did not fail.
UpdateFailed(p) ==
    /\ handlers[p].route = "reset-password"
    /\ handlers[p].pc = "updateUser"
    /\ handlers'[p].pc = "done"

C23_Step(p) ==
    /\ UpdateFailed(p) =>
          /\ handlers'[p].resp.status = 500
          /\ users' = users
          /\ passwordResetTokens' = passwordResetTokens
          /\ \A t \in passwordResetTokens' :
                t.id = handlers[p].loc.resetToken.id => t.usedAt = None
    /\ (handlers[p].route = "reset-password" /\ Stepped(p)
            /\ passwordResetTokens' # passwordResetTokens) =>
          /\ handlers[p].pc = "markPasswordResetTokenUsed"
          /\ \E u \in users :
                /\ u.id = handlers[p].loc.resetToken.userId
                /\ u.password = handlers[p].loc.hashedPassword

C23_FailedUpdateKeepsToken == [][\A p \in Procs : C23_Step(p)]_vars

\* after a request with a token was answered 500 with no password written, a
\* later request with the same token has passed the token check
C23_Witness ==
    \E p, q \in Procs :
        /\ Done(q, "reset-password")
        /\ handlers[q].resp.status = 500
        /\ \A u \in users : u.password # hashPassword(handlers[q].body.password)
        /\ handlers[p].route = "reset-password"
        /\ handlers[p].pc = "updateUser"
        /\ handlers[p].body.token = handlers[q].body.token

----------------------------------------------------------------------------
\* C24: when the handling of a reset-password request has ended, with any
\* answer, it is not the case that the password it carried is stored for the
\* token's user while the token it carried is still valid.
C24_PasswordAndTokenTogether ==
    \A p \in Procs :
        (Done(p, "reset-password") /\ \A q \in Procs : Free(q)) =>
            ~ \E t \in passwordResetTokens, u \in users :
                /\ t.token = handlers[p].body.token
                /\ TokenValid(t)
                /\ u.id = t.userId
                /\ u.password = hashPassword(handlers[p].body.password)

----------------------------------------------------------------------------
\* C25: the life of a reset token, step by step.
ValidAt(t, clock) == t.usedAt = None /\ clock < t.expiresAt

\* the claim's expired state
Expired(t) == now > t.expiresAt /\ t.usedAt = None

\* this step is the markPasswordResetTokenUsed of a reset-password request
\* that carries the token and is answered with success
Submitted(t) ==
    \E p \in Procs :
        /\ handlers[p].route = "reset-password"
        /\ handlers[p].pc = "markPasswordResetTokenUsed"
        /\ handlers[p].body.token = t.token
        /\ handlers'[p].pc = "done"
        /\ handlers'[p].resp.status = 200

\* this step is the invalidation of a reset request for the token's user
Invalidated(t) ==
    \E p \in Procs :
        /\ handlers[p].route = "request-password-reset"
        /\ handlers[p].pc = "invalidateUserPasswordResetTokens"
        /\ handlers[p].loc.user.id = t.userId
        /\ handlers'[p].pc = "createPasswordResetToken"

\* C25 as stated: usedAt is set only by a successful reset-password
\* submission of the token; a used token never becomes valid again; an
\* expired token never changes.
C25_Original ==
    [][\A t \in passwordResetTokens :
          /\ Expired(t) => t \in passwordResetTokens'
          /\ \A n \in passwordResetTokens' :
                n.id = t.id =>
                    /\ (t.usedAt = None /\ n.usedAt # None) => Submitted(t)
                    /\ t.usedAt # None => ~ValidAt(n, now')]_vars

\* C25, amended: usedAt is set only by a successful reset-password
\* submission of the token or by the invalidation of a reset request for the
\* token's user, and nothing else of the row changes; a token that is not
\* valid, because it is used or because its expiry has come, never becomes
\* valid again.
C25_TokenLifecycle ==
    [][\A t \in passwordResetTokens :
          \A n \in passwordResetTokens' :
             n.id = t.id =>
                /\ n = t \/ n = [t EXCEPT !.usedAt = Some(Date)]
                /\ (t.usedAt = None /\ n.usedAt # None) =>
                      Submitted(t) \/ Invalidated(t)
                /\ ~ValidAt(t, now) => ~ValidAt(n, now')]_vars

\* one token was used by a reset that succeeded, another was marked used by
\* an invalidation or has reached its expiry unused
C25_Witness ==
    \E t, e \in passwordResetTokens :
        /\ t.usedAt # None
        /\ \E p \in Procs : /\ Done(p, "reset-password")
                             /\ handlers[p].resp.status = 200
                             /\ handlers[p].body.token = t.token
        /\ e.id # t.id
        /\ ~ValidAt(e, now)

----------------------------------------------------------------------------
\* C26: a reset-password request writes the password only while its token is
\* unused: a token on which a newer reset request has set usedAt changes no
\* password.
C26_InvalidatedTokenWritesNothing ==
    [][\A p \in Procs :
          (/\ handlers[p].route = "reset-password"
           /\ handlers[p].pc = "updateUser"
           /\ users' # users) =>
              \E t \in passwordResetTokens :
                  /\ t.id = handlers[p].loc.resetToken.id
                  /\ t.usedAt = None]_vars

----------------------------------------------------------------------------
\* C27: a step of a request to a route behind the middleware whose header
\* carries no token, or a token with role "user", creates no user, deletes no
\* user, changes no role and no username, and leaves every row but the one of
\* the token's user as it is; when it changes that row, it is a step of the
\* profile route.
CarriesAdminToken(h) ==
    /\ h.body.authorization # NoHeader
    /\ h.body.authorization[1].token.role = "admin"

C27_Step(p) ==
    (/\ ~Free(p)
     /\ Stepped(p)
     /\ handlers[p].route \in GatedRoutes
     /\ ~CarriesAdminToken(handlers[p])) =>
        /\ {u.id : u \in users'} = {u.id : u \in users}
        /\ \A u \in users, n \in users' :
              n.id = u.id =>
                  /\ n.role = u.role
                  /\ n.username = u.username
                  /\ n # u =>
                        /\ handlers[p].route = "profile-update"
                        /\ handlers[p].body.authorization # NoHeader
                        /\ handlers[p].body.authorization[1].token.id = u.id

C27_UserTokenWritesOwnProfileOnly == [][\A p \in Procs : C27_Step(p)]_vars

\* the seeded user has renamed itself through the profile route with its
\* token of role "user"
C27_Witness ==
    \E p \in Procs :
        /\ Done(p, "profile-update")
        /\ handlers[p].resp.status = 200
        /\ handlers[p].body.authorization[1].token.role = "user"
        /\ \E u \in users :
              /\ u.id = handlers[p].body.authorization[1].token.id
              /\ u.name = "Renamed"
              /\ u.role = "user"

----------------------------------------------------------------------------
\* C28: the store, which is seeded with an administrator, holds a user with
\* role "admin" in every state.
C28_AnAdminRemains == \E u \in users : u.role = "admin"

----------------------------------------------------------------------------
\* C30: once the AuthProvider has loaded, its token is non-null exactly when
\* localStorage holds "token", its user is non-null exactly when localStorage
\* holds "user", and isAuthenticated is true exactly when both are held.
C30_StateMirrorsLocalStorage ==
    (browser.open /\ ~browser.isLoading) =>
        /\ (browser.token # None) = (browser.localStorage.token # None)
        /\ (browser.user # None) = (browser.localStorage.user # None)
        /\ isAuthenticated = (/\ browser.localStorage.token # None
                              /\ browser.localStorage.user # None)

====
